---------------------------- MODULE Spec2Model ----------------------------
(***************************************************************************)
(* A model of RepoPrep (src/src/index.ts): the rubric parser, the single   *)
(* model call per repository with its response parsing and mock fallback,  *)
(* the per-repository loop of main, and the interview loop.                *)
(*                                                                         *)
(* Strings whose characters the code inspects (rubric lines, user input)   *)
(* are sequences of one-character strings.  The model's response text is a *)
(* sequence of lexical tokens.                                             *)
(***************************************************************************)
EXTENDS Integers, Sequences, FiniteSets, TLC

VARIABLES
    \* ---- extractQuestionsFromRubric, run on its own (SpecRubric)
    rubricText,     \* the rubric handed to the parser: a sequence of characters
    questionsOut,   \* the parser's return value
    rpc,            \* "idle" | "ready" | "done"
    \* ---- answerRubricQuestionsWithGemini (SpecAnswer, and called by main)
    repoAnalysis,   \* its first argument: [repo, name, outputFile]
    RUBRIC,         \* the global RUBRIC text (77), its second argument
    rubricQuestions,\* the local of that name (259-268)
    generateCalls,  \* log of model.generateContent calls for rubric answers
    responseText,   \* what the awaited call produced
    apiError,       \* the message of the error the awaited call threw
    answerResults,  \* the InterviewQuestion list it returned
    apc,            \* "idle" | "start" | "awaiting" | "done"
    \* ---- the filesystem under the working directory
    dirs,           \* repo-output-<name> directories: name -> NoDir or its files
    textFiles,      \* rubric.txt and the rubric file of the command line
    outputJson,     \* interview_questions.json
    \* ---- module level and main (Spec)
    GEMINI_API_KEY, \* whether the environment sets it (15)
    argUrls,        \* the URLs of the command line or of the list file
    REPO_URLS,      \* 49-64
    RUBRIC_FILE,    \* 66: the .txt/.md argument, "" when there is none
    allQuestions,   \* 916
    repoIndex,      \* position of the for loop of 921 in REPO_URLS
    mpc,            \* where main stands
    exitCode,       \* -1 while running, else the process's exit code
    outputWrites,   \* history: the writes of interview_questions.json
    \* ---- history variables, written and never read by the program
    textFiles0,     \* textFiles when the run started
    fatalAt,        \* the stage whose error reached process.exit(1)
    answerCalls,    \* the repoIndex of every call of the answer function
    execOutcome,    \* current repository: "none" | "ok" | "failed"
    artifactLog,    \* current repository: successful writes of the artifact
    parsedInput,    \* current repository: text given to parseRepomixOutput
    \* ---- runInterview (SpecInterview)
    interviewQuestions, \* its parameter `questions`, filtered at 1223-1230
    results,        \* 1188: question id -> evaluation
    questionIndex,  \* the loop's i of 1232, counted from 1
    response,       \* 1250: the answer typed at the current question
    ipc,            \* where runInterview stands
    averageScore,   \* 1345, in tenths; -1 before it is computed
    report,         \* interview-report.json
    \* ---- history variables of the interview
    presented,      \* the indices of the questions shown, in order
    evalCalls,      \* every call of evaluateAnswerWithGemini
    scoreLog,       \* the score of every evaluation, in order
    exitedAt,       \* the index at which the loop was left by exit, else 0
    skipped,        \* the indices left by skip
    selectedRepos,  \* the answer of the repository prompt, if it was shown
    generateReport, \* the answer of the report prompt: "unasked", "yes", "no"
    reportError,    \* whether the catch of 1419 reported a failed report
    \* ---- evaluateAnswerWithGemini, run on its own (SpecEvaluate)
    evalQuestion,   \* its first argument, an InterviewQuestion
    evalAnswer,     \* its second argument, the candidate's answer
    evalResult,     \* the value it returned
    thrown,         \* the errors thrown inside it, in order
    epc,            \* "idle" | "start" | "awaiting" | "done"
    \* ---- parseRepomixOutput and the repository summary (SpecParse)
    artifactFiles,  \* the artifact's file elements, in order: [path, length]
    structureLength,    \* the characters of the structure, as JSON
    codeFiles,      \* the analysis' codeFiles: path -> length of its content
    totalContentLength, \* the running total of 769
    summaryLength,  \* the characters the artifact gives to repoSummary
    admissions,     \* the admissions in order, each [pass, index, total]
    ppc,            \* "idle" | "start" | "parsed" | "prompted"
    \* ---- the repository list of the module level, 24-64 (SpecRepoList)
    argv,           \* the command line after the script name
    listFile,       \* the file repos.list: [exists, text]
    repoList,       \* the value REPO_URLS is left with at 64
    lpc             \* "idle" | "start" | "done"

rubricVars == <<rubricText, questionsOut, rpc>>

answerVars ==
    <<repoAnalysis, RUBRIC, rubricQuestions, generateCalls, responseText,
      apiError, answerResults, apc>>

fsVars == <<dirs, textFiles, outputJson>>

mainVars ==
    <<GEMINI_API_KEY, argUrls, REPO_URLS, RUBRIC_FILE, allQuestions,
      repoIndex, outputWrites, mpc,
      exitCode, textFiles0, fatalAt, answerCalls, execOutcome, artifactLog,
      parsedInput>>

interviewVars ==
    <<interviewQuestions, results, questionIndex, response, ipc, averageScore,
      report, presented, evalCalls, scoreLog, exitedAt, skipped,
      selectedRepos, generateReport, reportError>>

evaluateVars == <<evalQuestion, evalAnswer, evalResult, thrown, epc>>

parseVars ==
    <<artifactFiles, structureLength, codeFiles, totalContentLength,
      summaryLength, admissions, ppc>>

listVars == <<argv, listFile, repoList, lpc>>

\* what neither main nor the answer function touches
idleVars ==
    <<rubricVars, interviewVars, evaluateVars, parseVars, listVars>>

vars ==
    <<rubricVars, answerVars, fsVars, mainVars, interviewVars, evaluateVars,
      parseVars, listVars>>

-----------------------------------------------------------------------------
(* Bounds *)

MaxLines == 3

MaxRespLen == 2

MaxRepos == 2

MaxQuestions == 3

MaxFiles == 2

MaxArgs == 2

MaxListLines == 2

-----------------------------------------------------------------------------
(* String primitives of JavaScript used by the code, on character sequences *)

Whitespace == {" ", "\t"}

Digit == {"0", "1", "2", "3", "4", "5", "6", "7", "8", "9"}

RECURSIVE TrimStart(_)
TrimStart(s) ==
    IF s # <<>> /\ Head(s) \in Whitespace THEN TrimStart(Tail(s)) ELSE s

RECURSIVE TrimEnd(_)
TrimEnd(s) ==
    IF s # <<>> /\ s[Len(s)] \in Whitespace
    THEN TrimEnd(SubSeq(s, 1, Len(s) - 1))
    ELSE s

\* String.prototype.trim
Trim(s) == TrimEnd(TrimStart(s))

\* String.prototype.startsWith
StartsWith(s, p) == Len(s) >= Len(p) /\ SubSeq(s, 1, Len(p)) = p

\* String.prototype.endsWith
EndsWith(s, p) ==
    Len(s) >= Len(p) /\ SubSeq(s, Len(s) - Len(p) + 1, Len(s)) = p

\* String.prototype.includes
Includes(s, p) ==
    \E i \in 1..(Len(s) - Len(p) + 1) : SubSeq(s, i, i + Len(p) - 1) = p

UpperCase ==
    <<"A", "B", "C", "D", "E", "F", "G", "H", "I", "J", "K", "L", "M", "N",
      "O", "P", "Q", "R", "S", "T", "U", "V", "W", "X", "Y", "Z">>

LowerCase ==
    <<"a", "b", "c", "d", "e", "f", "g", "h", "i", "j", "k", "l", "m", "n",
      "o", "p", "q", "r", "s", "t", "u", "v", "w", "x", "y", "z">>

\* String.prototype.toLowerCase on the letters A-Z
toLowerCase(str) ==
    [i \in 1..Len(str) |->
        IF \E k \in 1..Len(UpperCase) : UpperCase[k] = str[i]
        THEN LowerCase[CHOOSE k \in 1..Len(UpperCase) : UpperCase[k] = str[i]]
        ELSE str[i]]

\* String.prototype.split(c), c one character
RECURSIVE SplitOn(_, _)
SplitOn(s, c) ==
    IF \A i \in 1..Len(s) : s[i] # c
    THEN <<s>>
    ELSE LET k == CHOOSE i \in 1..Len(s) :
                      s[i] = c /\ \A j \in 1..(i - 1) : s[j] # c
         IN  <<SubSeq(s, 1, k - 1)>> \o SplitOn(SubSeq(s, k + 1, Len(s)), c)

\* rubric.split('\n')
SplitLines(s) == SplitOn(s, "\n")

\* Array.prototype.join('\n')
RECURSIVE JoinLines(_)
JoinLines(ls) ==
    IF Len(ls) = 0 THEN <<>>
    ELSE IF Len(ls) = 1 THEN ls[1]
    ELSE ls[1] \o <<"\n">> \o JoinLines(Tail(ls))

-----------------------------------------------------------------------------
(* extractQuestionsFromRubric, index.ts 136-167 *)

QuestionsHeader == <<"Q", "u", "e", "s", "t", "i", "o", "n", "s", ":">>

questionsLower == <<"q", "u", "e", "s", "t", "i", "o", "n", "s", ":">>

\* /^\d+\./.test(line)
StartsWithNumberDot(line) ==
    \E k \in 1..(Len(line) - 1) :
        /\ \A j \in 1..k : line[j] \in Digit
        /\ line[k + 1] = "."

\* line.startsWith('-') || line.startsWith('*') || /^\d+\./.test(line)
HasListMarker(line) ==
    \/ StartsWith(line, <<"-">>)
    \/ StartsWith(line, <<"*">>)
    \/ StartsWithNumberDot(line)

MarkerChars == {"*", "-", "."} \cup Digit

RECURSIVE DropWhile(_, _)
DropWhile(s, set) ==
    IF s # <<>> /\ Head(s) \in set THEN DropWhile(Tail(s), set) ELSE s

\* line.replace(/^[*\-\d\.]+\s*/, '').trim()
StripMarker(line) ==
    IF line # <<>> /\ Head(line) \in MarkerChars
    THEN Trim(DropWhile(DropWhile(line, MarkerChars), Whitespace \cup {"\n"}))
    ELSE Trim(line)

\* The inner while loop (145-157): from line j to the end of the region.
RECURSIVE CollectRegion(_, _)
CollectRegion(lines, j) ==
    IF j > Len(lines) THEN <<>>
    ELSE LET nextLine == Trim(lines[j])
         IN  IF nextLine = <<>> \/ StartsWith(nextLine, <<"#">>)
                              \/ EndsWith(nextLine, <<":">>)
             THEN <<>>
             ELSE (IF HasListMarker(nextLine) /\ Includes(nextLine, <<"?">>)
                   THEN <<StripMarker(nextLine)>>
                   ELSE <<>>) \o CollectRegion(lines, j + 1)

\* The outer for loop (140-164): i is not advanced past a region it scanned.
RECURSIVE ScanLines(_, _)
ScanLines(lines, i) ==
    IF i > Len(lines) THEN <<>>
    ELSE LET line == Trim(lines[i])
         IN  (IF line = QuestionsHeader \/ Includes(line, questionsLower)
              THEN CollectRegion(lines, i + 1)
              ELSE IF HasListMarker(line) /\ Includes(line, <<"?">>)
                   THEN <<StripMarker(line)>>
                   ELSE <<>>) \o ScanLines(lines, i + 1)

extractQuestionsFromRubric(rubric) == ScanLines(SplitLines(rubric), 1)

-----------------------------------------------------------------------------
(* Rubric lines the parser is run on *)

LWhatIsX == <<"-", " ", "W", "h", "a", "t", " ", "i", "s", " ", "X", "?">>
LHowY ==
    <<"-", " ", "H", "o", "w", " ", "d", "o", "e", "s", " ", "Y", " ",
      "w", "o", "r", "k", "?">>
LStarQ == <<"*", " ", "B", "?">>
LNumQ == <<"1", "2", ".", " ", "C", "?">>
LBulletNoQ == <<"-", " ", "D">>
LBlank == <<>>
LHeading == <<"#", " ", "H">>
LPlainQ == <<"E", "?">>
LLowerHeader ==
    <<"m", "y", " ", "q", "u", "e", "s", "t", "i", "o", "n", "s", ":">>
LIndentedQ == <<" ", " ", "-", " ", "F", "?", " ">>

RubricLines ==
    {QuestionsHeader, LWhatIsX, LHowY, LStarQ, LNumQ, LBulletNoQ, LBlank,
     LHeading, LPlainQ, LLowerHeader, LIndentedQ}

RubricTexts ==
    {JoinLines(ls) : ls \in UNION {[1..n -> RubricLines] : n \in 1..MaxLines}}

-----------------------------------------------------------------------------
(* The model's response text, as tokens.  k is a question number, v a     *)
(* string value; both are blank for the tokens that do not carry one.     *)

Tok(t, k, v) == [t |-> t, k |-> k, v |-> v]

LBrace == Tok("{", 0, "")
RBrace == Tok("}", 0, "")
\* a code fence, with or without its language tag
Fence == Tok("fence", 0, "")
Null == Tok("null", 0, "")
\* a JSON member "k": "v"
Member(k, v) == Tok("member", k, v)
\* prose
Word(v) == Tok("word", 0, v)
\* "k." or "k:" in prose
Marker(k) == Tok("marker", k, "")

RespTokens ==
    {LBrace, RBrace, Fence, Null, Member(1, "a"), Member(2, "b"),
     Member(1, ""), Word("w"), Marker(1), Marker(2)}

ShortResponses == UNION {[1..n -> RespTokens] : n \in 0..MaxRespLen}

Braced(r) == <<LBrace>> \o r \o <<RBrace>>

Fenced(r) == <<Fence>> \o r \o <<Fence>>

\* every short token sequence: bare and as the inside of a JSON object; each of
\* these also inside a code fence; each of those also after prose; and the
\* short sequences followed by a numbered answer
Responses ==
    LET plain == ShortResponses \cup {Braced(r) : r \in ShortResponses}
        fenced == plain \cup {Fenced(r) : r \in plain}
    IN  fenced
            \cup {<<Word("w")>> \o r : r \in fenced}
            \cup {r \o <<Marker(2), Word("w")>> : r \in ShortResponses}

-----------------------------------------------------------------------------
(* JSON.parse on a token sequence.  The result of a parse is               *)
(* [ok, isNull, obj]: ok is FALSE for a SyntaxError; obj maps the keys of  *)
(* an object to their values, a later member of the same key winning.     *)

IsObjectText(toks) ==
    /\ Len(toks) >= 2
    /\ toks[1] = LBrace
    /\ toks[Len(toks)] = RBrace
    /\ \A i \in 2..(Len(toks) - 1) : toks[i].t = "member"

ObjectOf(toks) ==
    LET keys == {toks[i].k : i \in 2..(Len(toks) - 1)}
        last(k) == CHOOSE i \in 2..(Len(toks) - 1) :
                       /\ toks[i].k = k
                       /\ \A j \in (i + 1)..(Len(toks) - 1) : toks[j].k # k
    IN  [k \in keys |-> toks[last(k)].v]

EmptyObject == [k \in {} |-> ""]

JSONparse(toks) ==
    IF toks = <<Null>>
    THEN [ok |-> TRUE, isNull |-> TRUE, obj |-> EmptyObject]
    ELSE IF IsObjectText(toks)
    THEN [ok |-> TRUE, isNull |-> FALSE, obj |-> ObjectOf(toks)]
    ELSE [ok |-> FALSE, isNull |-> FALSE, obj |-> EmptyObject]

-----------------------------------------------------------------------------
(* The two regular expressions of 467-468.  A match is the pair of the    *)
(* first and last token index of the text handed on to JSON.parse, or     *)
(* <<0, 0>> when the expression does not match.                           *)

NoMatch == <<0, 0>>

Least(S) == CHOOSE x \in S : \A y \in S : x <= y

\* /```(?:json)?\s*(\{.*?\})\s*```/s, group 1: leftmost opening fence followed
\* by '{', then the shortest run ending in a '}' that a fence follows.
FencedJsonMatch(text) ==
    LET closes(i) == {j \in (i + 2)..(Len(text) - 1) :
                          text[j] = RBrace /\ text[j + 1] = Fence}
        opens == {i \in 1..(Len(text) - 3) :
                      /\ text[i] = Fence
                      /\ text[i + 1] = LBrace
                      /\ closes(i) # {}}
    IN  IF opens = {} THEN NoMatch
        ELSE <<Least(opens) + 1, Least(closes(Least(opens)))>>

\* /\{[\s\S]*?\}/s, group 0: leftmost '{' up to the first '}' after it.
FirstBraceSpanMatch(text) ==
    LET ends(i) == {j \in (i + 1)..Len(text) : text[j] = RBrace}
        opens == {i \in 1..(Len(text) - 1) :
                      text[i] = LBrace /\ ends(i) # {}}
    IN  IF opens = {} THEN NoMatch
        ELSE <<Least(opens), Least(ends(Least(opens)))>>

\* responseText.match(fenced) || responseText.match(firstBraceSpan)
JsonMatch(text) ==
    IF FencedJsonMatch(text) # NoMatch
    THEN FencedJsonMatch(text)
    ELSE FirstBraceSpanMatch(text)

-----------------------------------------------------------------------------
(* An answer string.  kind "model" is text taken from the response (its   *)
(* tokens in text); the other kinds are the fixed texts of the code, each *)
(* naming a question number n or a question q.                            *)

ModelText(toks) == [kind |-> "model", n |-> 0, text |-> toks]

\* `Unable to extract answer for question ${n}` (489)
UnableToExtract(n) == [kind |-> "unable", n |-> n, text |-> <<>>]

\* `No answer provided for question ${n}` (498)
NoAnswerProvided(n) == [kind |-> "noanswer", n |-> n, text |-> <<>>]

\* `[MOCK ANSWER] Based on the limited information ... "${question}" ...` (548)
MockAnswer(q) == [kind |-> "mock", n |-> 0, text |-> q]

\* a JSON string value as response text: "" is the empty text
ValueText(v) == IF v = "" THEN ModelText(<<>>) ELSE ModelText(<<Word(v)>>)

\* JavaScript truthiness of an answer string
Truthy(ans) == ~(ans.kind = "model" /\ ans.text = <<>>)

\* new RegExp(`${n}[.:]\\s*(.+?)(?=\\s*${n+1}[.:]|$)`, 's') on the response
\* (485-490): the text after the first "n." that has text behind it, up to
\* the next "(n+1)." or the end.
ExtractByNumber(text, n) ==
    LET starts == {i \in 1..(Len(text) - 1) : text[i] = Marker(n)}
        stops(i) == {j \in (i + 1)..Len(text) :
                         j = Len(text) \/ text[j + 1] = Marker(n + 1)}
    IN  IF starts = {} THEN UnableToExtract(n)
        ELSE ModelText(SubSeq(text, Least(starts) + 1,
                              Least(stops(Least(starts)))))

\* The parse chain of 459-492: the value of `answers`.
ParseAnswers(text, count) ==
    LET direct == JSONparse(text)
        m == JsonMatch(text)
        extracted == JSONparse(SubSeq(text, m[1], m[2]))
    IN  IF direct.ok
        THEN [isNull |-> direct.isNull,
              obj |-> [k \in DOMAIN direct.obj |-> ValueText(direct.obj[k])]]
        ELSE IF m # NoMatch
        THEN [isNull |-> FALSE,
              obj |-> IF extracted.ok
                      THEN [k \in DOMAIN extracted.obj |->
                                ValueText(extracted.obj[k])]
                      ELSE EmptyObject]
        ELSE [isNull |-> FALSE,
              obj |-> [k \in 1..count |-> ExtractByNumber(text, k)]]

-----------------------------------------------------------------------------
(* InterviewQuestion (114-123).  type, difficulty and evaluationCriteria  *)
(* are the same constants in every question the code builds and are left  *)
(* out.                                                                   *)

\* `q${n}`
QuestionId(n) == <<"q", n>>

\* the ids are numbered from q0
QuestionZeroBased(n, q, ans, analysis) ==
    [id |-> QuestionId(n - 1), question |-> q, expectedAnswer |-> ans,
     repository |-> analysis.repo, repositoryName |-> analysis.name]

Question(n, q, ans, analysis) ==
    [id |-> QuestionId(n), question |-> q, expectedAnswer |-> ans,
     repository |-> analysis.repo, repositoryName |-> analysis.name]

\* the entries are built only for the questions the response answered
BuildResultsOmitMissing(questions, answers, analysis) ==
    LET RECURSIVE Keep(_)
        Keep(i) ==
            IF i > Len(questions) THEN <<>>
            ELSE (IF i \in DOMAIN answers.obj /\ Truthy(answers.obj[i])
                  THEN <<Question(i, questions[i], answers.obj[i], analysis)>>
                  ELSE <<>>) \o Keep(i + 1)
    IN  Keep(1)

\* 494-516: one entry per rubric question
BuildResults(questions, answers, analysis) ==
    [i \in 1..Len(questions) |->
        Question(i, questions[i],
                 IF i \in DOMAIN answers.obj /\ Truthy(answers.obj[i])
                 THEN answers.obj[i]
                 ELSE NoAnswerProvided(i),
                 analysis)]

\* a single mock entry stands for all the questions
MockResultsSingle(questions, analysis) ==
    <<Question(1, questions[1], MockAnswer(questions[1]), analysis)>>

\* 540-559: the mock answers of the apiError handler
MockResults(questions, analysis) ==
    [i \in 1..Len(questions) |->
        Question(i, questions[i], MockAnswer(questions[i]), analysis)]

DefaultQuestion1 ==
    <<"E", "x", "p", "l", "a", "i", "n", " ", "t", "h", "e", " ", "a", "r",
      "c", "h", "i", "t", "e", "c", "t", "u", "r", "e", " ", "o", "f", " ",
      "t", "h", "i", "s", " ", "a", "p", "p", "l", "i", "c", "a", "t", "i",
      "o", "n">>
DefaultQuestion2 ==
    <<"H", "o", "w", " ", "w", "o", "u", "l", "d", " ", "y", "o", "u", " ",
      "r", "e", "f", "a", "c", "t", "o", "r", " ", "p", "r", "o", "b", "l",
      "e", "m", "a", "t", "i", "c", " ", "a", "r", "e", "a", "s", "?">>
DefaultQuestion3 ==
    <<"H", "o", "w", " ", "w", "o", "u", "l", "d", " ", "y", "o", "u", " ",
      "i", "m", "p", "r", "o", "v", "e", " ", "t", "h", "e", " ", "e", "r",
      "r", "o", "r", " ", "h", "a", "n", "d", "l", "i", "n", "g", "?">>

\* the parser's list is used as it is, empty or not
QuestionsAsParsed(rubricArg) == extractQuestionsFromRubric(rubricArg)

\* 259-268: the parser's questions, or the three defaults when it found none
QuestionsOrDefault(rubricArg) ==
    IF extractQuestionsFromRubric(rubricArg) = <<>>
    THEN <<DefaultQuestion1, DefaultQuestion2, DefaultQuestion3>>
    ELSE extractQuestionsFromRubric(rubricArg)

\* the one model of the program (72-74)
GeminiModel == "gemini-2.0-pro-exp"

\* messages of the errors generateContent may throw
ApiErrors ==
    {"[429 Too Many Requests] quota exceeded",
     "[500 Internal Server Error]",
     "input length and max_tokens exceed context limit: 9 + 2 > 10"}

NoResponse == <<Tok("none", 0, "")>>

-----------------------------------------------------------------------------
(* The filesystem.  A repository's output directory repo-output-<name> is *)
(* keyed by <name>; a path inside it is [dir |-> name, file |-> ...].     *)

FriendlyTickets ==
    <<"f", "r", "i", "e", "n", "d", "l", "y", "-", "t", "i", "c", "k", "e",
      "t", "s">>

RepoNames == {<<"x">>, <<"y">>, FriendlyTickets}

\* an artifact file: what wrote it last, and its size in bytes
File(kind, size) == [kind |-> kind, size |-> size]

NoFile == File("absent", 0)

NoDir ==
    [exists |-> FALSE, config |-> FALSE, artifact |-> NoFile,
     debug |-> NoResponse]

EmptyDir == [NoDir EXCEPT !.exists = TRUE]

Path(dir, file) == [dir |-> dir, file |-> file]

NoPath == Path(<<>>, "")

\* path.dirname of a path inside an output directory
Dirname(path) == path.dir

\* a text file of the working directory
TextFile(text) == [exists |-> TRUE, text |-> text]

NoTextFile == [exists |-> FALSE, text |-> <<>>]

-----------------------------------------------------------------------------
(* answerRubricQuestionsWithGemini, 256-581.  The statements before the   *)
(* await of 449 are one step, the rest of the function after the awaited  *)
(* call settled is the other.  The outermost handler (562-580) is not     *)
(* modelled: no statement of 259-445 throws on the analyses main builds.  *)

NoError == "none"

AnswerIdle ==
    /\ repoAnalysis = [repo |-> <<>>, name |-> <<>>, outputFile |-> NoPath]
    /\ RUBRIC = <<>>
    /\ rubricQuestions = <<>>
    /\ generateCalls = <<>>
    /\ responseText = NoResponse
    /\ apiError = NoError
    /\ answerResults = <<>>
    /\ apc = "idle"

FsIdle ==
    /\ dirs = [n \in RepoNames |-> NoDir]
    /\ textFiles = [f \in {"rubric.txt", "custom.md"} |-> NoTextFile]
    /\ outputJson = [exists |-> FALSE, content |-> <<>>]

NoReport == [exists |-> FALSE, overallScore |-> -1, questionDetails |-> <<>>]

\* the repository prompt of 1207 was not shown
NotAsked == [asked |-> FALSE, repos |-> {}]

InterviewIdle ==
    /\ interviewQuestions = <<>>
    /\ results = <<>>
    /\ questionIndex = 0
    /\ response = <<>>
    /\ ipc = "idle"
    /\ averageScore = -1
    /\ report = NoReport
    /\ presented = <<>>
    /\ evalCalls = <<>>
    /\ scoreLog = <<>>
    /\ exitedAt = 0
    /\ skipped = {}
    /\ selectedRepos = NotAsked
    /\ generateReport = "unasked"
    /\ reportError = FALSE

\* a field of an evaluation: a list of strings, or something else
ListOf(items) == [isList |-> TRUE, items |-> items]

NotAList == [isList |-> FALSE, items |-> <<>>]

\* an AnswerEvaluation (125-131) as a JavaScript value; feedback and
\* suggestions are left out
Evaluation(score, missingPoints, strengths) ==
    [kind |-> "object", score |-> score, missingPoints |-> missingPoints,
     strengths |-> strengths]

NoEvaluation ==
    [kind |-> "none", score |-> 0, missingPoints |-> NotAList,
     strengths |-> NotAList]

\* the expectedAnswer of a question: a string, or another JSON value that
\* the response gave for the question (497-498)
StringValue(text) == [isString |-> TRUE, text |-> text]

NumberValue == [isString |-> FALSE, text |-> <<>>]

EvaluateIdle ==
    /\ evalQuestion = [expectedAnswer |-> StringValue(<<>>)]
    /\ evalAnswer = <<>>
    /\ evalResult = NoEvaluation
    /\ thrown = <<>>
    /\ epc = "idle"

NoFiles == [p \in {} |-> 0]

ParseIdle ==
    /\ artifactFiles = <<>>
    /\ structureLength = 0
    /\ codeFiles = NoFiles
    /\ totalContentLength = 0
    /\ summaryLength = 0
    /\ admissions = <<>>
    /\ ppc = "idle"

ListIdle ==
    /\ argv = <<>>
    /\ listFile = NoTextFile
    /\ repoList = <<>>
    /\ lpc = "idle"

\* model.generateContent(prompt) (449): the prompt carries the numbered list
\* of all questions (274, 427)
IssueGenerate(calls, analysis, questions) ==
    Append(calls, [model |-> GeminiModel, repo |-> analysis.repo,
                   questions |-> questions])

\* 257-449, up to the await
CallModel ==
    /\ apc = "start"
    /\ rubricQuestions' = QuestionsOrDefault(RUBRIC)
    /\ generateCalls' =
           IssueGenerate(generateCalls, repoAnalysis, QuestionsOrDefault(RUBRIC))
    /\ apc' = "awaiting"
    /\ UNCHANGED <<repoAnalysis, RUBRIC, responseText, apiError,
                   answerResults, fsVars>>

\* 450-516 and, for what throws there, 518-559: the call resolved with `text`.
\* writeOk: whether fs.writeFileSync of the debug file succeeds (455).
\* `answers[questionId]` on null (498) is a TypeError.
ModelReturns(text, writeOk) ==
    /\ apc = "awaiting"
    /\ responseText' = text
    /\ LET dir == Dirname(repoAnalysis.outputFile)
           written == writeOk /\ dirs[dir].exists
           answers == ParseAnswers(text, Len(rubricQuestions))
       IN  /\ dirs' = IF written THEN [dirs EXCEPT ![dir].debug = text]
                      ELSE dirs
           /\ answerResults' =
                  IF written /\ ~answers.isNull
                  THEN BuildResults(rubricQuestions, answers, repoAnalysis)
                  ELSE MockResults(rubricQuestions, repoAnalysis)
    /\ apc' = "done"
    /\ UNCHANGED <<repoAnalysis, RUBRIC, rubricQuestions, generateCalls,
                   apiError, textFiles, outputJson>>

QuotaErrors == {"[429 Too Many Requests] quota exceeded"}

\* the handler issues the call a second time on a quota error
ModelThrowsWithRetry(err) ==
    /\ apc = "awaiting"
    /\ apiError' = err
    /\ IF err \in QuotaErrors /\ apiError = NoError
       THEN /\ generateCalls' =
                   IssueGenerate(generateCalls, repoAnalysis, rubricQuestions)
            /\ UNCHANGED <<answerResults, apc>>
       ELSE /\ answerResults' = MockResults(rubricQuestions, repoAnalysis)
            /\ apc' = "done"
            /\ UNCHANGED generateCalls
    /\ UNCHANGED <<repoAnalysis, RUBRIC, rubricQuestions, responseText,
                   fsVars>>

\* 518-559: the call rejected with an error whose message is `err`
ModelThrows(err) ==
    /\ apc = "awaiting"
    /\ apiError' = err
    /\ answerResults' = MockResults(rubricQuestions, repoAnalysis)
    /\ apc' = "done"
    /\ UNCHANGED <<repoAnalysis, RUBRIC, rubricQuestions, generateCalls,
                   responseText, fsVars>>

-----------------------------------------------------------------------------
(* Module level and main, 12-112 and 895-1182 *)

UrlAX ==
    <<"h", "t", "t", "p", "s", ":", "/", "/", "g", "i", "t", "h", "u", "b",
      ".", "c", "o", "m", "/", "a", "/", "x">>
UrlBX ==
    <<"h", "t", "t", "p", "s", ":", "/", "/", "g", "i", "t", "h", "u", "b",
      ".", "c", "o", "m", "/", "b", "/", "x">>
UrlAY ==
    <<"h", "t", "t", "p", "s", ":", "/", "/", "g", "i", "t", "h", "u", "b",
      ".", "c", "o", "m", "/", "a", "/", "y">>

\* "https://github.com/ProgramComputer/friendly-tickets" (63)
DefaultRepoUrl ==
    <<"h", "t", "t", "p", "s", ":", "/", "/", "g", "i", "t", "h", "u", "b",
      ".", "c", "o", "m", "/", "P", "r", "o", "g", "r", "a", "m", "C", "o",
      "m", "p", "u", "t", "e", "r", "/">> \o FriendlyTickets

\* the repository URLs a run may be given
RepoUrls == {UrlAX, UrlBX, UrlAY}

HttpsPrefix == <<"h", "t", "t", "p", "s", ":", "/", "/">>

IsHttps(arg) == StartsWith(arg, HttpsPrefix)

\* every argument counts as a URL
AnyArgument(arg) == TRUE

\* arg.startsWith('https://') (58)
IsUrlArgument(arg) == IsHttps(arg)

\* process.argv.slice(2).filter(arg => arg.startsWith('https://')) (58)
CommandLineUrls(args) == SelectSeq(args, IsUrlArgument)

\* arg.endsWith('.repos') || arg.endsWith('.list') (52)
IsListArgument(arg) ==
    \/ EndsWith(arg, <<".", "r", "e", "p", "o", "s">>)
    \/ EndsWith(arg, <<".", "l", "i", "s", "t">>)

\* process.argv.find(...) (52): the first such argument, or <<>> for undefined
REPO_LIST_FILE(args) ==
    IF \A i \in 1..Len(args) : ~IsListArgument(args[i]) THEN <<>>
    ELSE args[CHOOSE i \in 1..Len(args) :
                  /\ IsListArgument(args[i])
                  /\ \A j \in 1..(i - 1) : ~IsListArgument(args[j])]

\* line.startsWith('https://') && !line.startsWith('#'), then Boolean (31-32)
IsRepoLine(line) ==
    /\ IsHttps(line)
    /\ ~StartsWith(line, <<"#">>)
    /\ line # <<>>

\* 25-45.  readOk: whether readFileSync succeeds; its error is caught (40)
readReposFromFile(file, readOk) ==
    IF ~readOk THEN <<>>
    ELSE LET lines == SplitLines(file.text)
             trimmed == [i \in 1..Len(lines) |-> Trim(lines[i])]
         IN  SelectSeq(trimmed, IsRepoLine)

\* 62-64
OrDefaultRepo(urls) == IF urls = <<>> THEN <<DefaultRepoUrl>> ELSE urls

\* 'https://github.com/' (1082)
GithubPrefix ==
    <<"h", "t", "t", "p", "s", ":", "/", "/", "g", "i", "t", "h", "u", "b",
      ".", "c", "o", "m", "/">>

\* the default RUBRIC (77-112)
DefaultRubric ==
    <<"\n", "#", " ", "T", "e", "c", "h", "n", "i", "c", "a", "l", " ", "I",
      "n", "t", "e", "r", "v", "i", "e", "w", " ", "R", "u", "b", "r", "i",
      "c", " ", "f", "o", "r", " ", "W", "e", "b", " ", "D", "e", "v", "e",
      "l", "o", "p", "m", "e", "n", "t", "\n", "\n", "#", "#", " ", "A", "r",
      "c", "h", "i", "t", "e", "c", "t", "u", "r", "e", " ", "&", " ", "D",
      "e", "s", "i", "g", "n", " ", "(", "H", "i", "g", "h", " ", "i", "m",
      "p", "o", "r", "t", "a", "n", "c", "e", ")", "\n", "-", " ", "F", "r",
      "o", "n", "t", "e", "n", "d", "-", "B", "a", "c", "k", "e", "n", "d",
      " ", "s", "e", "p", "a", "r", "a", "t", "i", "o", "n", "\n", "-", " ",
      "D", "a", "t", "a", " ", "m", "o", "d", "e", "l", "i", "n", "g", "\n",
      "-", " ", "A", "P", "I", " ", "d", "e", "s", "i", "g", "n", "\n", "-",
      " ", "S", "t", "a", "t", "e", " ", "m", "a", "n", "a", "g", "e", "m",
      "e", "n", "t", "\n", "\n", "Q", "u", "e", "s", "t", "i", "o", "n", "s",
      ":", "\n", "-", " ", "E", "x", "p", "l", "a", "i", "n", " ", "t", "h",
      "e", " ", "a", "r", "c", "h", "i", "t", "e", "c", "t", "u", "r", "e",
      " ", "o", "f", " ", "t", "h", "i", "s", " ", "a", "p", "p", "l", "i",
      "c", "a", "t", "i", "o", "n", "\n", "-", " ", "H", "o", "w", " ", "i",
      "s", " ", "d", "a", "t", "a", " ", "f", "l", "o", "w", "i", "n", "g",
      " ", "b", "e", "t", "w", "e", "e", "n", " ", "c", "o", "m", "p", "o",
      "n", "e", "n", "t", "s", "?", "\n", "-", " ", "H", "o", "w", " ", "w",
      "o", "u", "l", "d", " ", "y", "o", "u", " ", "i", "m", "p", "r", "o",
      "v", "e", " ", "t", "h", "e", " ", "c", "u", "r", "r", "e", "n", "t",
      " ", "a", "r", "c", "h", "i", "t", "e", "c", "t", "u", "r", "e", "?",
      "\n", "\n", "#", "#", " ", "C", "o", "d", "e", " ", "Q", "u", "a", "l",
      "i", "t", "y", " ", "(", "M", "e", "d", "i", "u", "m", " ", "i", "m",
      "p", "o", "r", "t", "a", "n", "c", "e", ")", "\n", "-", " ", "C", "l",
      "e", "a", "n", " ", "c", "o", "d", "e", " ", "p", "r", "i", "n", "c",
      "i", "p", "l", "e", "s", "\n", "-", " ", "E", "r", "r", "o", "r", " ",
      "h", "a", "n", "d", "l", "i", "n", "g", "\n", "-", " ", "P", "e", "r",
      "f", "o", "r", "m", "a", "n", "c", "e", " ", "c", "o", "n", "s", "i",
      "d", "e", "r", "a", "t", "i", "o", "n", "s", "\n", "-", " ", "T", "e",
      "s", "t", "i", "n", "g", " ", "a", "p", "p", "r", "o", "a", "c", "h",
      "\n", "\n", "Q", "u", "e", "s", "t", "i", "o", "n", "s", ":", "\n",
      "-", " ", "H", "o", "w", " ", "w", "o", "u", "l", "d", " ", "y", "o",
      "u", " ", "r", "e", "f", "a", "c", "t", "o", "r", " ", "p", "r", "o",
      "b", "l", "e", "m", "a", "t", "i", "c", " ", "a", "r", "e", "a", "s",
      "?", "\n", "-", " ", "W", "h", "a", "t", " ", "t", "e", "s", "t", "i",
      "n", "g", " ", "s", "t", "r", "a", "t", "e", "g", "y", " ", "w", "o",
      "u", "l", "d", " ", "y", "o", "u", " ", "i", "m", "p", "l", "e", "m",
      "e", "n", "t", "?", "\n", "-", " ", "H", "o", "w", " ", "w", "o", "u",
      "l", "d", " ", "y", "o", "u", " ", "h", "a", "n", "d", "l", "e", " ",
      "e", "r", "r", "o", "r", "s", " ", "m", "o", "r", "e", " ", "e", "f",
      "f", "e", "c", "t", "i", "v", "e", "l", "y", "?", "\n", "\n", "#", "#",
      " ", "P", "r", "o", "b", "l", "e", "m", " ", "S", "o", "l", "v", "i",
      "n", "g", " ", "(", "H", "i", "g", "h", " ", "i", "m", "p", "o", "r",
      "t", "a", "n", "c", "e", ")", "\n", "-", " ", "U", "n", "d", "e", "r",
      "s", "t", "a", "n", "d", "i", "n", "g", " ", "r", "e", "q", "u", "i",
      "r", "e", "m", "e", "n", "t", "s", "\n", "-", " ", "P", "r", "o", "p",
      "o", "s", "i", "n", "g", " ", "s", "o", "l", "u", "t", "i", "o", "n",
      "s", "\n", "-", " ", "T", "e", "c", "h", "n", "i", "c", "a", "l", " ",
      "c", "o", "m", "m", "u", "n", "i", "c", "a", "t", "i", "o", "n", "\n",
      "-", " ", "D", "e", "b", "u", "g", "g", "i", "n", "g", " ", "a", "p",
      "p", "r", "o", "a", "c", "h", "\n", "\n", "Q", "u", "e", "s", "t", "i",
      "o", "n", "s", ":", "\n", "-", " ", "H", "o", "w", " ", "w", "o", "u",
      "l", "d", " ", "y", "o", "u", " ", "i", "m", "p", "l", "e", "m", "e",
      "n", "t", " ", "a", " ", "n", "e", "w", " ", "f", "e", "a", "t", "u",
      "r", "e", " ", "X", "?", "\n", "-", " ", "H", "o", "w", " ", "w", "o",
      "u", "l", "d", " ", "y", "o", "u", " ", "t", "r", "o", "u", "b", "l",
      "e", "s", "h", "o", "o", "t", " ", "i", "s", "s", "u", "e", " ", "Y",
      "?", "\n", "-", " ", "E", "x", "p", "l", "a", "i", "n", " ", "y", "o",
      "u", "r", " ", "a", "p", "p", "r", "o", "a", "c", "h", " ", "t", "o",
      " ", "s", "o", "l", "v", "i", "n", "g", " ", "c", "o", "m", "p", "l",
      "e", "x", " ", "p", "r", "o", "b", "l", "e", "m", "s", "\n">>

NonEmpty(x) == x # <<>>

\* path.basename (927)
Basename(p) ==
    LET segs == SelectSeq(SplitOn(p, "/"), NonEmpty)
    IN  IF segs = <<>> THEN <<>> ELSE segs[Len(segs)]

\* String.prototype.replace(p, ''), p a string
RemoveFirst(str, p) ==
    IF ~Includes(str, p) THEN str
    ELSE LET i == Least({k \in 1..(Len(str) - Len(p) + 1) :
                             SubSeq(str, k, k + Len(p) - 1) = p})
         IN  SubSeq(str, 1, i - 1) \o SubSeq(str, i + Len(p), Len(str))

\* repoName of the per-repository handler (1082-1084)
CatchRepoName(repoUrl) ==
    LET urlParts == SplitOn(RemoveFirst(repoUrl, GithubPrefix), "/")
    IN  IF Len(urlParts) >= 2 /\ urlParts[2] # <<>>
        THEN urlParts[2]
        ELSE Basename(repoUrl)

\* length of '<repository></repository>' (1030)
PlaceholderSize == 25

PlaceholderXml == File("placeholder", PlaceholderSize)

\* length of the template of 173-249 without its interpolated URL and names,
\* the ISO date counted with its 24 characters
MockTemplateSize == 3324

\* generateMockRepositoryXml (172-250)
generateMockRepositoryXml(repoUrl, repoName) ==
    File("mock", MockTemplateSize + Len(repoUrl) + 2 * Len(repoName))

\* 1041
MinArtifactSize == 100

\* the artifact is replaced only when it is missing
NeedsMockOnlyIfMissing(file) == file = NoFile

\* !fs.existsSync(outputXmlPath) || fs.statSync(outputXmlPath).size < 100
NeedsMock(file) == file = NoFile \/ file.size < MinArtifactSize

\* what the packaging tool may leave at the artifact's path
RepomixArtifacts ==
    {NoFile, File("repomix", MinArtifactSize - 1),
     File("repomix", MinArtifactSize)}

\* a directory left by an earlier run
StaleDir ==
    [exists |-> TRUE, config |-> TRUE,
     artifact |-> File("repomix", MinArtifactSize),
     debug |-> <<Word("w")>>]

RubricOneQ == JoinLines(<<LWhatIsX>>)

RubricTwoQ == JoinLines(<<QuestionsHeader, LWhatIsX, LHowY>>)

inputVars ==
    <<GEMINI_API_KEY, argUrls, REPO_URLS, RUBRIC_FILE, textFiles0,
      outputWrites>>

repoHist == <<execOutcome, artifactLog, parsedInput>>

answerLocals == <<rubricQuestions, responseText, apiError, answerResults>>

\* the output directories before the run: an earlier run left the one of
\* 'x' behind
InitialDirs == [n \in RepoNames |-> IF n = <<"x">> THEN StaleDir ELSE NoDir]

MainIdle ==
    /\ GEMINI_API_KEY = FALSE
    /\ argUrls = <<>>
    /\ REPO_URLS = <<>>
    /\ outputWrites = 0
    /\ RUBRIC_FILE = ""
    /\ allQuestions = <<>>
    /\ repoIndex = 0
    /\ mpc = "idle"
    /\ exitCode = -1
    /\ textFiles0 = [f \in {"rubric.txt", "custom.md"} |-> NoTextFile]
    /\ fatalAt = "none"
    /\ answerCalls = <<>>
    /\ execOutcome = "none"
    /\ artifactLog = <<>>
    /\ parsedInput = NoFile

MainInit ==
    /\ rubricText = <<>> /\ questionsOut = <<>> /\ rpc = "idle"
    /\ InterviewIdle
    /\ EvaluateIdle
    /\ ParseIdle
    /\ ListIdle
    /\ repoAnalysis = [repo |-> <<>>, name |-> <<>>, outputFile |-> NoPath]
    /\ RUBRIC = DefaultRubric
    /\ rubricQuestions = <<>>
    /\ generateCalls = <<>>
    /\ responseText = NoResponse
    /\ apiError = NoError
    /\ answerResults = <<>>
    /\ apc = "idle"
    /\ dirs = InitialDirs
    /\ \E rubricTxt \in {NoTextFile, TextFile(RubricTwoQ)},
          custom \in {NoTextFile, TextFile(RubricOneQ)} :
           textFiles = [f \in {"rubric.txt", "custom.md"} |->
                           IF f = "rubric.txt" THEN rubricTxt ELSE custom]
    /\ outputJson = [exists |-> FALSE, content |-> <<>>]
    /\ GEMINI_API_KEY \in BOOLEAN
    \* no URL, or URLs of which the first is UrlAX, whose directory an
    \* earlier run left behind; the URLs after it are any of RepoUrls,
    \* repeated or not
    /\ argUrls \in UNION {[1..n -> RepoUrls] : n \in 0..MaxRepos}
    /\ argUrls # <<>> => argUrls[1] = UrlAX
    /\ REPO_URLS = <<>>
    /\ outputWrites = 0
    /\ RUBRIC_FILE \in {"", "custom.md"}
    /\ RUBRIC_FILE = "" => ~textFiles["custom.md"].exists
    /\ allQuestions = <<>>
    /\ repoIndex = 0
    /\ mpc = "start"
    /\ exitCode = -1
    /\ textFiles0 = textFiles
    /\ fatalAt = "none"
    /\ answerCalls = <<>>
    /\ execOutcome = "none"
    /\ artifactLog = <<>>
    /\ parsedInput = NoFile

\* an error reaches main's outer handler: process.exit(1) (1177-1181)
Fatal(stage) ==
    /\ mpc' = "exited"
    /\ exitCode' = 1
    /\ fatalAt' = stage

\* the repository list is read before the credential is looked at
CheckKeyAfterRepoList ==
    /\ mpc = "start"
    /\ REPO_URLS' = OrDefaultRepo(CommandLineUrls(argUrls))
    /\ IF GEMINI_API_KEY
       THEN mpc' = "loadRubric" /\ UNCHANGED <<exitCode, fatalAt>>
       ELSE Fatal("key")
    /\ UNCHANGED <<GEMINI_API_KEY, argUrls, RUBRIC_FILE, textFiles0,
                   outputWrites, allQuestions, repoIndex, answerCalls,
                   repoHist, idleVars, answerVars, fsVars>>

\* the module level, 15-67: the credential check, then the repository list,
\* which is the default repository when no URL was given (62-64)
CheckKey ==
    /\ mpc = "start"
    /\ IF GEMINI_API_KEY
       THEN /\ REPO_URLS' = OrDefaultRepo(CommandLineUrls(argUrls))
            /\ mpc' = "loadRubric"
            /\ UNCHANGED <<exitCode, fatalAt>>
       ELSE Fatal("key") /\ UNCHANGED REPO_URLS
    /\ UNCHANGED <<GEMINI_API_KEY, argUrls, RUBRIC_FILE, textFiles0,
                   outputWrites, allQuestions, repoIndex, answerCalls,
                   repoHist, idleVars, answerVars, fsVars>>

\* rubric.txt is written whenever no existing rubric file was given
RubricBranchOverwrite(rubricFile, files) ==
    IF rubricFile # "" /\ files[rubricFile].exists THEN "loadGiven"
    ELSE "writeDefault"

\* an existing rubric.txt is preferred to the file named on the command line
RubricBranchExistingFirst(rubricFile, files) ==
    IF files["rubric.txt"].exists THEN "loadExisting"
    ELSE IF rubricFile # "" /\ files[rubricFile].exists THEN "loadGiven"
    ELSE "writeDefault"

\* which branch of 901-912 runs
RubricBranch(rubricFile, files) ==
    IF rubricFile # "" /\ files[rubricFile].exists THEN "loadGiven"
    ELSE IF ~files["rubric.txt"].exists THEN "writeDefault"
    ELSE "loadExisting"

\* 900-912.  ioOk: whether the one read or write of the branch succeeds.
LoadRubric(ioOk) ==
    /\ mpc = "loadRubric"
    /\ LET branch == RubricBranch(RUBRIC_FILE, textFiles)
       IN  IF ~ioOk
           THEN Fatal("rubric") /\ UNCHANGED <<RUBRIC, textFiles, repoIndex>>
           ELSE /\ mpc' = "prepareDir"
                /\ repoIndex' = 1
                /\ RUBRIC' = CASE branch = "loadGiven" ->
                                      textFiles[RUBRIC_FILE].text
                               [] branch = "writeDefault" -> RUBRIC
                               [] branch = "loadExisting" ->
                                      textFiles["rubric.txt"].text
                /\ textFiles' = IF branch = "writeDefault"
                                THEN [textFiles EXCEPT
                                          !["rubric.txt"] = TextFile(RUBRIC)]
                                ELSE textFiles
                /\ UNCHANGED <<exitCode, fatalAt>>
    /\ UNCHANGED <<inputVars, allQuestions, answerCalls, repoHist, idleVars,
                   repoAnalysis, answerLocals, generateCalls, apc, dirs,
                   outputJson>>

repoUrl == REPO_URLS[repoIndex]

\* 927-935.  rmOk, mkOk: whether fs.rmSync and fs.mkdirSync succeed.
PrepareDir(rmOk, mkOk) ==
    /\ mpc = "prepareDir"
    /\ LET repoName == Basename(repoUrl)
       IN  IF dirs[repoName].exists /\ ~rmOk
           THEN mpc' = "catch" /\ UNCHANGED dirs
           ELSE IF ~mkOk
           THEN /\ mpc' = "catch"
                /\ dirs' = [dirs EXCEPT ![repoName] = NoDir]
           ELSE /\ mpc' = "writeConfig"
                /\ dirs' = [dirs EXCEPT ![repoName] = EmptyDir]
    /\ UNCHANGED <<inputVars, allQuestions, repoIndex, exitCode, fatalAt,
                   answerCalls, repoHist, idleVars, answerVars, textFiles,
                   outputJson>>

\* fs.writeFileSync(outputXmlPath, ...) by the program
WriteArtifact(repoName, file) ==
    /\ dirs' = [dirs EXCEPT ![repoName].artifact = file]
    /\ artifactLog' = Append(artifactLog, file)

\* 946-1012, and 1032-1038 when it throws.  cfgOk: whether the config is read
\* and written; phOk: whether the handler's write of the placeholder succeeds.
WriteConfig(cfgOk, phOk) ==
    /\ mpc = "writeConfig"
    /\ LET repoName == Basename(repoUrl)
       IN  IF cfgOk
           THEN /\ dirs' = [dirs EXCEPT ![repoName].config = TRUE]
                /\ mpc' = "exec"
                /\ UNCHANGED artifactLog
           ELSE IF phOk
           THEN WriteArtifact(repoName, PlaceholderXml) /\ mpc' = "ensure"
           ELSE mpc' = "catch" /\ UNCHANGED <<dirs, artifactLog>>
    /\ UNCHANGED <<inputVars, allQuestions, repoIndex, exitCode, fatalAt,
                   answerCalls, execOutcome, parsedInput, idleVars,
                   answerVars, textFiles, outputJson>>

\* 1014-1031, and 1032-1038 when the handler of 1025 throws.  ok: the
\* subprocess exited 0 within the timeout; left: what it then left at the
\* artifact's path (a failed run leaves nothing); ph1Ok, ph2Ok: whether the
\* placeholder writes of 1030 and 1037 succeed.
ExecRepomix(ok, left, ph1Ok, ph2Ok) ==
    /\ mpc = "exec"
    /\ LET repoName == Basename(repoUrl)
       IN  IF ok
           THEN /\ execOutcome' = "ok"
                /\ dirs' = [dirs EXCEPT ![repoName].artifact = left]
                /\ mpc' = "ensure"
                /\ UNCHANGED artifactLog
           ELSE /\ execOutcome' = "failed"
                /\ IF ph1Ok \/ ph2Ok
                   THEN WriteArtifact(repoName, PlaceholderXml)
                        /\ mpc' = "ensure"
                   ELSE mpc' = "catch" /\ UNCHANGED <<dirs, artifactLog>>
    /\ UNCHANGED <<inputVars, allQuestions, repoIndex, exitCode, fatalAt,
                   answerCalls, parsedInput, idleVars, answerVars,
                   textFiles, outputJson>>

\* 1040-1044.  writeOk: whether the write of the mock artifact succeeds.
EnsureArtifact(writeOk) ==
    /\ mpc = "ensure"
    /\ LET repoName == Basename(repoUrl)
       IN  IF ~NeedsMock(dirs[repoName].artifact)
           THEN mpc' = "readParse" /\ UNCHANGED <<dirs, artifactLog>>
           ELSE IF writeOk
           THEN WriteArtifact(repoName,
                              generateMockRepositoryXml(repoUrl, repoName))
                /\ mpc' = "readParse"
           ELSE mpc' = "catch" /\ UNCHANGED <<dirs, artifactLog>>
    /\ UNCHANGED <<inputVars, allQuestions, repoIndex, exitCode, fatalAt,
                   answerCalls, execOutcome, parsedInput, idleVars,
                   answerVars, textFiles, outputJson>>

\* main calls answerRubricQuestionsWithGemini(analysis, RUBRIC) (1062, 1128)
InvokeAnswer(analysis) ==
    /\ repoAnalysis' = analysis
    /\ rubricQuestions' = <<>>
    /\ responseText' = NoResponse
    /\ apiError' = NoError
    /\ answerResults' = <<>>
    /\ apc' = "start"
    /\ answerCalls' = Append(answerCalls, repoIndex)
    /\ mpc' = "answering"
    /\ UNCHANGED <<RUBRIC, generateCalls>>

\* 1046-1062.  readOk: whether fs.readFileSync of the artifact succeeds, as
\* it can only when the file exists.  parseRepomixOutput catches what it
\* throws (879-892).
ReadAndParse(readOk) ==
    /\ mpc = "readParse"
    /\ LET repoName == Basename(repoUrl)
       IN  IF readOk /\ dirs[repoName].artifact # NoFile
           THEN /\ parsedInput' = dirs[repoName].artifact
                /\ InvokeAnswer([repo |-> repoUrl, name |-> repoName,
                                 outputFile |->
                                     Path(repoName, "repomix-output.xml")])
           ELSE /\ mpc' = "catch"
                /\ UNCHANGED <<parsedInput, answerVars, answerCalls>>
    /\ UNCHANGED <<inputVars, allQuestions, repoIndex, exitCode, fatalAt,
                   execOutcome, artifactLog, idleVars, fsVars>>

\* 1074-1128, the per-repository handler.  mkOk: whether its fs.mkdirSync
\* succeeds; an error of it is caught by nothing but main's outer handler.
RepoCatch(mkOk) ==
    /\ mpc = "catch"
    /\ LET repoName == CatchRepoName(repoUrl)
       IN  IF ~dirs[repoName].exists /\ ~mkOk
           THEN Fatal("repo") /\ UNCHANGED <<dirs, answerVars, answerCalls>>
           ELSE /\ dirs' = IF dirs[repoName].exists THEN dirs
                           ELSE [dirs EXCEPT ![repoName] = EmptyDir]
                /\ InvokeAnswer([repo |-> repoUrl, name |-> repoName,
                                 outputFile |->
                                     Path(repoName, "repomix-output.xml")])
                /\ UNCHANGED <<exitCode, fatalAt>>
    /\ UNCHANGED <<inputVars, allQuestions, repoIndex, repoHist, idleVars,
                   textFiles, outputJson>>

\* questions.map(q => ({...q, repository: repoUrl, repositoryName: repoName}))
TagQuestions(questions, url, name) ==
    [i \in 1..Len(questions) |->
        [questions[i] EXCEPT !.repository = url, !.repositoryName = name]]

\* the questions of a repository are put in front of the earlier ones
CollectQuestionsInFront ==
    /\ mpc = "answering"
    /\ apc = "done"
    /\ allQuestions' =
           TagQuestions(answerResults, repoUrl, repoAnalysis.name)
               \o allQuestions
    /\ apc' = "idle"
    /\ repoAnalysis' = [repo |-> <<>>, name |-> <<>>, outputFile |-> NoPath]
    /\ rubricQuestions' = <<>>
    /\ responseText' = NoResponse
    /\ apiError' = NoError
    /\ answerResults' = <<>>
    /\ execOutcome' = "none" /\ artifactLog' = <<>> /\ parsedInput' = NoFile
    /\ IF repoIndex < Len(REPO_URLS)
       THEN repoIndex' = repoIndex + 1 /\ mpc' = "prepareDir"
       ELSE mpc' = "writeOutput" /\ UNCHANGED repoIndex
    /\ UNCHANGED <<inputVars, exitCode, fatalAt, answerCalls, idleVars,
                   RUBRIC, generateCalls, fsVars>>

\* 1062-1072 and 1128-1138, after the awaited call, and the loop's step.  The
\* locals of the call and of the iteration end with it.
CollectQuestions ==
    /\ mpc = "answering"
    /\ apc = "done"
    /\ allQuestions' =
           allQuestions
               \o TagQuestions(answerResults, repoUrl, repoAnalysis.name)
    /\ apc' = "idle"
    /\ repoAnalysis' = [repo |-> <<>>, name |-> <<>>, outputFile |-> NoPath]
    /\ rubricQuestions' = <<>>
    /\ responseText' = NoResponse
    /\ apiError' = NoError
    /\ answerResults' = <<>>
    /\ execOutcome' = "none" /\ artifactLog' = <<>> /\ parsedInput' = NoFile
    /\ IF repoIndex < Len(REPO_URLS)
       THEN repoIndex' = repoIndex + 1 /\ mpc' = "prepareDir"
       ELSE mpc' = "writeOutput" /\ UNCHANGED repoIndex
    /\ UNCHANGED <<inputVars, exitCode, fatalAt, answerCalls, idleVars,
                   RUBRIC, generateCalls, fsVars>>

\* 1142-1144.  writeOk: whether the write of interview_questions.json succeeds.
WriteOutput(writeOk) ==
    /\ mpc = "writeOutput"
    /\ IF writeOk
       THEN /\ outputJson' = [exists |-> TRUE, content |-> allQuestions]
            /\ outputWrites' = outputWrites + 1
            /\ mpc' = "written"
            /\ UNCHANGED <<exitCode, fatalAt>>
       ELSE Fatal("output") /\ UNCHANGED <<outputJson, outputWrites>>
    /\ UNCHANGED <<GEMINI_API_KEY, argUrls, REPO_URLS, RUBRIC_FILE,
                   textFiles0, allQuestions, repoIndex, answerCalls, repoHist,
                   idleVars, answerVars, dirs, textFiles>>

\* runInterview(allQuestions) is entered (1174)
EnterInterview ==
    /\ interviewQuestions' = allQuestions
    /\ ipc' = "select"
    /\ UNCHANGED <<results, questionIndex, response, averageScore, report,
                   presented, evalCalls, scoreLog, exitedAt, skipped,
                   generateReport, reportError, selectedRepos>>

\* the answers are printed and the interview is run all the same
ModeBranchAlwaysInterview(analysisMode) ==
    /\ mpc = "written"
    /\ IF analysisMode
       THEN mpc' = "printed" /\ exitCode' = 0
       ELSE mpc' = "interview" /\ UNCHANGED exitCode
    /\ EnterInterview
    /\ UNCHANGED <<inputVars, allQuestions, repoIndex, fatalAt, answerCalls,
                   repoHist, rubricVars, evaluateVars, parseVars, listVars,
                   answerVars, fsVars>>

\* 1146-1175.  analysisMode: the flag read at 898 from the command line,
\* which nothing but a log line reads before this branch.  In analysis mode
\* the answers are printed and main returns; otherwise the interview starts.
ModeBranch(analysisMode) ==
    /\ mpc = "written"
    /\ IF analysisMode
       THEN mpc' = "printed" /\ exitCode' = 0 /\ UNCHANGED interviewVars
       ELSE mpc' = "interview" /\ EnterInterview /\ UNCHANGED exitCode
    /\ UNCHANGED <<inputVars, allQuestions, repoIndex, fatalAt, answerCalls,
                   repoHist, rubricVars, evaluateVars, parseVars, listVars,
                   answerVars, fsVars>>

\* the responses and errors of the model that main is run against
MainResponses == {Braced(<<Member(1, "a"), Member(2, "b")>>)}

MainNext ==
    \/ CheckKey
    \/ \E ioOk \in BOOLEAN : LoadRubric(ioOk)
    \/ \E rmOk, mkOk \in BOOLEAN : PrepareDir(rmOk, mkOk)
    \/ \E cfgOk, phOk \in BOOLEAN : WriteConfig(cfgOk, phOk)
    \/ \E ok, ph1Ok, ph2Ok \in BOOLEAN :
           \E left \in IF ok THEN RepomixArtifacts ELSE {NoFile} :
               ExecRepomix(ok, left, ph1Ok, ph2Ok)
    \/ \E writeOk \in BOOLEAN : EnsureArtifact(writeOk)
    \/ \E readOk \in BOOLEAN : ReadAndParse(readOk)
    \/ \E mkOk \in BOOLEAN : RepoCatch(mkOk)
    \/ CallModel /\ UNCHANGED <<idleVars, mainVars>>
    \/ \E text \in MainResponses, writeOk \in BOOLEAN :
           ModelReturns(text, writeOk) /\ UNCHANGED <<idleVars, mainVars>>
    \/ \E err \in QuotaErrors :
           ModelThrows(err) /\ UNCHANGED <<idleVars, mainVars>>
    \/ CollectQuestions
    \/ \E writeOk \in BOOLEAN : WriteOutput(writeOk)
    \/ \E analysisMode \in BOOLEAN : ModeBranch(analysisMode)

Spec == MainInit /\ [][MainNext]_vars

-----------------------------------------------------------------------------
(* evaluateAnswerWithGemini (586-693) *)

\* \s of the regular expressions at 640 and 650
RegexSpace == {" ", "\t", "\n"}

\* answer.split(/\s+/).length (640): one more than the runs of whitespace
WordCount(answer) ==
    1 + Cardinality({i \in 1..Len(answer) :
                         /\ answer[i] \in RegexSpace
                         /\ (i = 1 \/ answer[i - 1] \notin RegexSpace)})

\* String.prototype.split on a one-character class
RECURSIVE SplitOnAny(_, _)
SplitOnAny(str, seps) ==
    IF \A i \in 1..Len(str) : str[i] \notin seps
    THEN <<str>>
    ELSE LET k == CHOOSE i \in 1..Len(str) :
                      str[i] \in seps /\ \A j \in 1..(i - 1) : str[j] \notin seps
         IN  <<SubSeq(str, 1, k - 1)>>
                 \o SplitOnAny(SubSeq(str, k + 1, Len(str)), seps)

\* 648-651: the words of the expected answer longer than 5 characters
ExpectedKeywords(expected) ==
    SelectSeq(SplitOnAny(toLowerCase(expected), {".", ","} \cup RegexSpace),
              LAMBDA word : Len(word) > 5)

\* 653-656
KeywordMatches(keywords, answer) ==
    Cardinality({k \in 1..Len(keywords) :
                     Includes(toLowerCase(answer), keywords[k])})

Max(a, b) == IF a >= b THEN a ELSE b

Min(a, b) == IF a <= b THEN a ELSE b

\* two points are taken for every keyword the answer misses
FallbackScorePerMissingKeyword(expected, answer) ==
    LET wordCount == WordCount(answer)
        lengthScore == IF wordCount < 20 THEN Max(3, 5 - 2)
                       ELSE IF wordCount > 100 THEN Min(8, 5 + 3)
                       ELSE 5
        keywords == ExpectedKeywords(expected)
    IN  lengthScore - 2 * (Len(keywords) - KeywordMatches(keywords, answer))

\* 640-661: the score of the heuristic.  keywordPercentage is
\* matches / keywords, NaN when there is no keyword, and NaN is neither
\* above 0.5 nor below 0.2.
FallbackScore(expected, answer) ==
    LET wordCount == WordCount(answer)
        lengthScore == IF wordCount < 20 THEN Max(3, 5 - 2)
                       ELSE IF wordCount > 100 THEN Min(8, 5 + 3)
                       ELSE 5
        keywords == ExpectedKeywords(expected)
        matches == KeywordMatches(keywords, answer)
    IN  IF Len(keywords) > 0 /\ 2 * matches > Len(keywords)
        THEN Min(10, lengthScore + 2)
        ELSE IF Len(keywords) > 0 /\ 5 * matches < Len(keywords)
        THEN Max(1, lengthScore - 2)
        ELSE lengthScore

\* 663-679
FallbackEvaluation(expected, answer) ==
    Evaluation(FallbackScore(expected, answer),
               ListOf(<<"More specific implementation details needed",
                        "Consider edge cases and error scenarios">>),
               ListOf(<<"Clear explanation of the approach",
                        "Good understanding of the core concepts">>))

\* 682-691: the value of the outer handler
ErrorEvaluation == Evaluation(5, ListOf(<<>>), ListOf(<<>>))

\* JSON null
NullEvaluation ==
    [kind |-> "null", score |-> 0, missingPoints |-> NotAList,
     strengths |-> NotAList]

\* what the text of the model's response may be: not JSON (prose, or JSON
\* inside a code fence), or the JSON text of a value
NotJson == [json |-> FALSE, value |-> NoEvaluation]

JsonOf(value) == [json |-> TRUE, value |-> value]

EvaluationResponses ==
    {NotJson,
     JsonOf(Evaluation(7, ListOf(<<"m">>), ListOf(<<"s">>))),
     JsonOf(Evaluation(11, NotAList, NotAList)),
     JsonOf(NullEvaluation)}

\* n words joined by single spaces
WordsOf(n) ==
    [i \in 1..(2 * n - 1) |-> IF i % 2 = 1 THEN "w" ELSE " "]

ModularDesign ==
    <<"M", "o", "d", "u", "l", "a", "r", " ", "d", "e", "s", "i", "g", "n">>

\* six keywords, one of them 'modular'
SixKeywords ==
    <<"m", "o", "d", "u", "l", "a", "r", ",", "l", "a", "y", "e", "r", "e",
      "d", ",", "t", "e", "s", "t", "e", "d", ".", "s", "t", "a", "b", "l",
      "e", "s", "t", " ", "s", "i", "m", "p", "l", "e", "s", "t", "\n",
      "f", "a", "s", "t", "e", "s", "t">>

\* the expected answers evaluated: strings with and without a word longer
\* than 5 characters, and a value that is not a string
ExpectedAnswers ==
    {StringValue(<<>>),
     StringValue(<<"s", "h", "o", "r", "t", " ", "w", "o", "r", "d", "s">>),
     StringValue(ModularDesign \o <<".">>),
     StringValue(SixKeywords),
     NumberValue}

\* the answers evaluated: empty, short, and around the word counts 20 and 100
CandidateAnswers ==
    {<<>>, ModularDesign, WordsOf(19), WordsOf(20), WordsOf(100),
     WordsOf(101), ModularDesign \o <<" ">> \o WordsOf(101)}

EvaluateInit ==
    /\ rubricText = <<>> /\ questionsOut = <<>> /\ rpc = "idle"
    /\ AnswerIdle
    /\ FsIdle
    /\ MainIdle
    /\ InterviewIdle
    /\ ParseIdle
    /\ ListIdle
    /\ evalQuestion \in [expectedAnswer : ExpectedAnswers]
    /\ evalAnswer \in CandidateAnswers
    /\ evalResult = NoEvaluation
    /\ thrown = <<>>
    /\ epc = "start"

nonEvaluateVars ==
    <<rubricVars, answerVars, fsVars, mainVars, interviewVars, parseVars,
      listVars>>

\* 590-629, up to the await of 632
EvaluateCall ==
    /\ epc = "start"
    /\ epc' = "awaiting"
    /\ UNCHANGED <<evalQuestion, evalAnswer, evalResult, thrown,
                   nonEvaluateVars>>

\* 635-679, and 682-691 for what throws there: the handler of the inner try
Fallback(error) ==
    IF evalQuestion.expectedAnswer.isString
    THEN /\ evalResult' = FallbackEvaluation(evalQuestion.expectedAnswer.text,
                                            evalAnswer)
         /\ thrown' = Append(thrown, error)
    ELSE /\ evalResult' = ErrorEvaluation
         /\ thrown' = thrown \o <<error, "TypeError">>

\* 632-634: the call resolved with `resp`; JSON.parse returns its value or
\* throws
EvaluateModelReturns(resp) ==
    /\ epc = "awaiting"
    /\ IF resp.json
       THEN evalResult' = resp.value /\ UNCHANGED thrown
       ELSE Fallback("SyntaxError")
    /\ epc' = "done"
    /\ UNCHANGED <<evalQuestion, evalAnswer, nonEvaluateVars>>

\* 632, 635: the call rejected
EvaluateModelThrows ==
    /\ epc = "awaiting"
    /\ Fallback("ApiError")
    /\ epc' = "done"
    /\ UNCHANGED <<evalQuestion, evalAnswer, nonEvaluateVars>>

EvaluateNext ==
    \/ EvaluateCall
    \/ \E resp \in EvaluationResponses : EvaluateModelReturns(resp)
    \/ EvaluateModelThrows

SpecEvaluate == EvaluateInit /\ [][EvaluateNext]_vars

-----------------------------------------------------------------------------
(* runInterview (1185-1427) and the evaluation it awaits (586-693).  An   *)
(* evaluation is kept as its score; the typed answers are sequences of     *)
(* characters.                                                             *)

ExitWord == <<"e", "x", "i", "t">>

SkipWord == <<"s", "k", "i", "p">>

\* the comparison looks at the answer as typed
IsExitAsTyped(answer) == answer = ExitWord

\* response.answer.toLowerCase() === 'exit' (1256)
IsExit(answer) == toLowerCase(answer) = ExitWord

\* the comparison looks at the answer as typed
IsSkipAsTyped(answer) == answer = SkipWord

\* response.answer.toLowerCase() === 'skip' (1261)
IsSkip(answer) == toLowerCase(answer) = SkipWord

\* what the user may type at a question
UserInputs ==
    {ExitWord, <<"E", "X", "I", "T">>, <<"E", "x", "i", "t">>,
     SkipWord, <<"S", "K", "I", "P">>, <<"s", "K", "i", "p">>,
     <<"o", "k">>, <<"e", "x", "i", "t", " ">>}

\* what the awaited evaluateAnswerWithGemini may resolve with: values that
\* the model's JSON denotes, returned as they are (634), among them one
\* without a valid score or lists, and null
InterviewEvaluations ==
    {Evaluation(2, ListOf(<<"m">>), ListOf(<<"s">>)),
     Evaluation(9, ListOf(<<"m">>), ListOf(<<"s">>)),
     Evaluation(11, NotAList, NotAList),
     NullEvaluation}

\* the questions of one repository as main collects them (1062-1072): the
\* answer function numbers them from q1 for every repository
RepoQuestionList(url, name, n) ==
    TagQuestions(
        BuildResults([k \in 1..n |-> <<"Q", k>>],
                     [isNull |-> FALSE, obj |-> EmptyObject],
                     [repo |-> url, name |-> name,
                      outputFile |-> Path(name, "repomix-output.xml")]),
        url, name)

\* allQuestions of a run over one or two repositories
InterviewInputs ==
    {RepoQuestionList(UrlAX, <<"x">>, c[1])
         \o RepoQuestionList(UrlAY, <<"y">>, c[2]) :
     c \in {d \in (1..MaxQuestions) \X (0..MaxQuestions) :
                d[1] + d[2] <= MaxQuestions}}

\* Object.keys(byRepo) (1190-1201)
ReposOf(questions) == {questions[k].repository : k \in 1..Len(questions)}

\* questions.filter(q => selectedRepos.includes(q.repository)) (1223-1225)
RECURSIVE FilterBySelected(_, _)
FilterBySelected(questions, selected) ==
    IF questions = <<>> THEN <<>>
    ELSE (IF Head(questions).repository \in selected
          THEN <<Head(questions)>>
          ELSE <<>>) \o FilterBySelected(Tail(questions), selected)

\* the checkbox prompt takes any answer
AnySelection(answer) == TRUE

\* validate: answer.length > 0 (1217); the prompt resolves with no other
\* answer
ValidSelection(answer) == answer # {}

\* results[q.id] = evaluation (1270)
SetResult(res, index, id, evaluation) ==
    [x \in DOMAIN res \cup {id} |-> IF x = id THEN evaluation ELSE res[x]]

\* totalScore of 1336-1343: the sum over Object.values(results)
RECURSIVE TotalScore(_)
TotalScore(res) ==
    IF DOMAIN res = {} THEN 0
    ELSE LET x == CHOOSE y \in DOMAIN res : TRUE
         IN  res[x].score
                 + TotalScore([y \in DOMAIN res \ {x} |-> res[y]])

\* Math.round((total / count) * 10), the average in tenths (1345)
RoundedTenths(total, count) ==
    IF count > 0 THEN (20 * total + count) \div (2 * count) ELSE 0

nonInterviewVars ==
    <<rubricVars, answerVars, fsVars, mainVars, evaluateVars, parseVars,
      listVars>>

InterviewInit ==
    /\ rubricText = <<>> /\ questionsOut = <<>> /\ rpc = "idle"
    /\ AnswerIdle
    /\ FsIdle
    /\ MainIdle
    /\ EvaluateIdle
    /\ ParseIdle
    /\ ListIdle
    /\ interviewQuestions \in InterviewInputs
    /\ results = <<>>
    /\ questionIndex = 0
    /\ response = <<>>
    /\ ipc = "select"
    /\ averageScore = -1
    /\ report = NoReport
    /\ presented = <<>>
    /\ evalCalls = <<>>
    /\ scoreLog = <<>>
    /\ exitedAt = 0
    /\ skipped = {}
    /\ selectedRepos = NotAsked
    /\ generateReport = "unasked"
    /\ reportError = FALSE

\* the head of the loop of 1232: question number `index` is shown, or the
\* loop ends
ShowQuestion(questions, index) ==
    IF index <= Len(questions)
    THEN /\ questionIndex' = index
         /\ presented' = Append(presented, index)
         /\ ipc' = "prompt"
    ELSE /\ ipc' = "summary"
         /\ UNCHANGED <<questionIndex, presented>>

\* 1203-1230: with more than one repository the prompt of 1207 is shown and
\* resolves with `selected`, which filters the questions; with one it is not
\* shown (selected is then empty and unused).  The loop of 1232 starts.
SelectRepos(selected) ==
    /\ ipc = "select"
    /\ IF Cardinality(ReposOf(interviewQuestions)) > 1
       THEN /\ ValidSelection(selected)
            /\ selectedRepos' = [asked |-> TRUE, repos |-> selected]
            /\ interviewQuestions' =
                   FilterBySelected(interviewQuestions, selected)
       ELSE /\ selected = {}
            /\ UNCHANGED <<selectedRepos, interviewQuestions>>
    /\ ShowQuestion(interviewQuestions', 1)
    /\ UNCHANGED <<results, response, averageScore, report, evalCalls,
                   scoreLog, exitedAt, skipped, generateReport, reportError,
                   nonInterviewVars>>

\* 1250-1256: the prompt resolved with the typed answer
Answer(input) ==
    /\ ipc = "prompt"
    /\ response' = input
    /\ ipc' = "answered"
    /\ UNCHANGED <<interviewQuestions, results, questionIndex, averageScore,
                   report, presented, evalCalls, scoreLog, exitedAt, skipped,
                   generateReport, reportError, selectedRepos,
                   nonInterviewVars>>

\* 1256-1259
Exit ==
    /\ ipc = "answered"
    /\ IsExit(response)
    /\ exitedAt' = questionIndex
    /\ response' = <<>>
    /\ ipc' = "summary"
    /\ UNCHANGED <<interviewQuestions, results, questionIndex, averageScore,
                   report, presented, evalCalls, scoreLog, skipped,
                   generateReport, reportError, selectedRepos,
                   nonInterviewVars>>

\* 1261-1264
Skip ==
    /\ ipc = "answered"
    /\ ~IsExit(response)
    /\ IsSkip(response)
    /\ skipped' = skipped \cup {questionIndex}
    /\ response' = <<>>
    /\ ShowQuestion(interviewQuestions, questionIndex + 1)
    /\ UNCHANGED <<interviewQuestions, results, averageScore, report,
                   evalCalls, scoreLog, exitedAt, selectedRepos,
                   generateReport, reportError, nonInterviewVars>>

\* 1266-1269, up to the await
Evaluate ==
    /\ ipc = "answered"
    /\ ~IsExit(response)
    /\ ~IsSkip(response)
    /\ evalCalls' = Append(evalCalls,
                           [index |-> questionIndex,
                            id |-> interviewQuestions[questionIndex].id,
                            answer |-> response])
    /\ ipc' = "evaluating"
    /\ UNCHANGED <<interviewQuestions, results, questionIndex, response,
                   averageScore, report, presented, scoreLog, exitedAt,
                   skipped, generateReport, reportError, selectedRepos,
                   nonInterviewVars>>

\* 1269-1295: evaluateAnswerWithGemini resolved, from the model's JSON or
\* from its fallbacks, with `value`, which is stored; reading the score of
\* null at 1273 throws out of runInterview
EvalReturns(value) ==
    /\ ipc = "evaluating"
    /\ results' = SetResult(results, questionIndex,
                            interviewQuestions[questionIndex].id, value)
    /\ scoreLog' = Append(scoreLog, value.score)
    /\ response' = <<>>
    /\ ipc' = IF value.kind = "null" THEN "crashed" ELSE "showExpected"
    /\ UNCHANGED <<interviewQuestions, questionIndex, averageScore, report,
                   presented, evalCalls, exitedAt, skipped, generateReport,
                   reportError, selectedRepos, nonInterviewVars>>

\* 1297-1309: the confirm prompt resolved; the loop steps
ShowExpected(showExpected) ==
    /\ ipc = "showExpected"
    /\ ShowQuestion(interviewQuestions, questionIndex + 1)
    /\ UNCHANGED <<interviewQuestions, results, response, averageScore, report,
                   evalCalls, scoreLog, exitedAt, skipped, generateReport,
                   reportError, selectedRepos, nonInterviewVars>>

\* the summary is shown with or without results
AlwaysSummarise(res) == TRUE

\* Object.keys(results).length > 0 (1312)
HasResults(res) == DOMAIN res # {}

\* 1312-1388: the summary, shown when there is a result
Summary ==
    /\ ipc = "summary"
    /\ IF HasResults(results)
       THEN /\ averageScore' = RoundedTenths(TotalScore(results),
                                            Cardinality(DOMAIN results))
            /\ ipc' = "offerReport"
       ELSE ipc' = "done" /\ UNCHANGED averageScore
    /\ UNCHANGED <<interviewQuestions, results, questionIndex, response,
                   report, presented, evalCalls, scoreLog, exitedAt, skipped,
                   generateReport, reportError, selectedRepos,
                   nonInterviewVars>>

\* the last question of the list with the id
FindLastQuestion(questions, qId) ==
    LET hits == {k \in 1..Len(questions) : questions[k].id = qId}
    IN  questions[CHOOSE k \in hits : \A j \in hits : j <= k]

\* questions.find(q => q.id === qId) (1407): the first question of the list
\* with the id
FindQuestion(questions, qId) ==
    LET hits == {k \in 1..Len(questions) : questions[k].id = qId}
    IN  questions[CHOOSE k \in hits : \A j \in hits : k <= j]

\* questionDetails of 1406-1415, by question id
QuestionDetails(questions, res) ==
    [qId \in DOMAIN res |->
        [repository |-> FindQuestion(questions, qId).repositoryName,
         question |-> FindQuestion(questions, qId).question,
         score |-> res[qId].score]]

\* the report is written whatever the answer to the prompt
ConfirmedAlways(answer) == TRUE

\* if (generateReport) (1397)
Confirmed(answer) == answer

\* 1390-1423.  answer: the user's reply to the report prompt; writeOk: whether
\* the write of interview-report.json succeeds.  A failure is caught and
\* reported (1419-1421) and the function returns (1426).
OfferReport(answer, writeOk) ==
    /\ ipc = "offerReport"
    /\ generateReport' = IF answer THEN "yes" ELSE "no"
    /\ report' = IF Confirmed(answer) /\ writeOk
                 THEN [exists |-> TRUE, overallScore |-> averageScore,
                       questionDetails |->
                           QuestionDetails(interviewQuestions, results)]
                 ELSE report
    /\ reportError' = (Confirmed(answer) /\ ~writeOk)
    /\ ipc' = "done"
    /\ UNCHANGED <<interviewQuestions, results, questionIndex, response,
                   averageScore, presented, evalCalls, scoreLog, exitedAt,
                   skipped, selectedRepos, nonInterviewVars>>

InterviewNext ==
    \/ \E selected \in SUBSET ReposOf(interviewQuestions) :
           SelectRepos(selected)
    \/ \E input \in UserInputs : Answer(input)
    \/ Exit
    \/ Skip
    \/ Evaluate
    \/ \E value \in InterviewEvaluations : EvalReturns(value)
    \/ \E showExpected \in BOOLEAN : ShowExpected(showExpected)
    \/ Summary
    \/ \E answer, writeOk \in BOOLEAN : OfferReport(answer, writeOk)

SpecInterview == InterviewInit /\ [][InterviewNext]_vars

-----------------------------------------------------------------------------
(* parseRepomixOutput (698-893): the choice of the files handed to the model,
   and the part of the prompt the artifact fills (272-403) *)

\* 774
MAX_CONTENT_LENGTH == 600000

\* 859: the observed context limit, in tokens
ContextLimit == 204698

\* 857
CharsPerToken == 4

\* \.(e1|e2|...)$
EndsWithExtension(filePath, extensions) ==
    \E e \in extensions : EndsWith(filePath, <<".">> \o e)

\* 788: /\/(app|main|server)\.(js|ts|tsx)$/
MainAppFiles ==
    {<<"/">> \o n \o <<".">> \o e :
        n \in {<<"a", "p", "p">>, <<"m", "a", "i", "n">>, <<"s", "e", "r", "v", "e", "r">>},
        e \in {<<"j", "s">>, <<"t", "s">>, <<"t", "s", "x">>}}

\* 784-791
isHighPriorityFile(filePath) ==
    \/ Includes(filePath, <<"i", "n", "d", "e", "x">>)
    \/ Includes(filePath, <<"c", "o", "n", "f", "i", "g">>)
    \/ Includes(filePath,
                <<"p", "a", "c", "k", "a", "g", "e", ".", "j", "s", "o", "n">>)
    \/ \E m \in MainAppFiles : EndsWith(filePath, m)
    \/ EndsWith(filePath, <<"R", "E", "A", "D", "M", "E", ".", "m", "d">>)
    \/ EndsWith(filePath,
                <<"s", "c", "h", "e", "m", "a", ".", "p", "r", "i", "s", "m", "a">>)
    \/ EndsWithExtension(filePath,
                         {<<"e", "n", "v">>, <<"e", "x", "a", "m", "p", "l", "e">>})

\* 812
SourceExtensions ==
    {
    <<"j", "s">>, <<"j", "s", "x">>, <<"t", "s">>,
    <<"t", "s", "x">>, <<"v", "u", "e">>, <<"s", "v", "e", "l", "t", "e">>,
    <<"p", "y">>, <<"r", "b">>, <<"g", "o">>,
    <<"j", "a", "v", "a">>, <<"k", "t">>, <<"s", "w", "i", "f", "t">>,
    <<"c">>, <<"c", "p", "p">>, <<"h">>,
    <<"h", "p", "p">>, <<"c", "s">>, <<"p", "h", "p">>,
    <<"r", "s">>, <<"d", "a", "r", "t">>}

\* 811-817
isSourceCodeFile(filePath) ==
    /\ EndsWithExtension(filePath, SourceExtensions)
    /\ ~Includes(filePath, <<"t", "e", "s", "t">>)
    /\ ~Includes(filePath, <<"s", "p", "e", "c">>)
    /\ ~Includes(filePath, <<"_", "_", "t", "e", "s", "t", "s", "_", "_">>)
    /\ ~Includes(filePath, <<"_", "_", "m", "o", "c", "k", "s", "_", "_">>)
    /\ ~Includes(filePath,
                 <<"n", "o", "d", "e", "_", "m", "o", "d", "u", "l", "e", "s">>)

\* 838
UsefulExtensions ==
    {
    <<"c", "s", "s">>, <<"s", "c", "s", "s">>, <<"s", "a", "s", "s">>,
    <<"l", "e", "s", "s">>, <<"h", "t", "m", "l">>, <<"x", "m", "l">>,
    <<"j", "s", "o", "n">>, <<"y", "m", "l">>, <<"y", "a", "m", "l">>,
    <<"m", "d">>, <<"s", "q", "l">>, <<"g", "r", "a", "p", "h", "q", "l">>,
    <<"g", "q", "l">>, <<"p", "r", "i", "s", "m", "a">>, <<"t", "o", "m", "l">>,
    <<"i", "n", "i">>, <<"s", "h">>, <<"b", "a", "s", "h">>,
    <<"z", "s", "h">>, <<"b", "a", "t">>, <<"c", "o", "n", "f">>,
    <<"e", "n", "v">>}

\* 837-839
isUsefulFile(filePath) ==
    /\ EndsWithExtension(filePath, UsefulExtensions)
    /\ ~Includes(filePath,
                 <<"n", "o", "d", "e", "_", "m", "o", "d", "u", "l", "e", "s">>)

\* codeFiles[filePath] = fileContent, the content kept as its length
PutFile(files, filePath, length) ==
    [p \in DOMAIN files \cup {filePath} |->
        IF p = filePath THEN length ELSE files[p]]

\* the test of the pass: 793, 819, 841
WantedInPass(pass, filePath) ==
    CASE pass = 1 -> isHighPriorityFile(filePath)
      [] pass = 2 -> isSourceCodeFile(filePath)
      [] OTHER -> isUsefulFile(filePath)

\* nothing is ever skipped
NeverIncluded(pass, files, filePath) == FALSE

\* if (codeFiles[filePath]) continue (808, 834): the later passes skip a path
\* whose kept content is truthy, that is not empty
AlreadyIncluded(pass, files, filePath) ==
    /\ pass > 1
    /\ filePath \in DOMAIN files
    /\ files[filePath] > 0

\* one pass over fileMatches (777-798, 801-824, 827-846); acc is
\* [codeFiles, total, log], log the admissions so far.
RECURSIVE PassOverFiles(_, _, _, _)
PassOverFiles(files, i, pass, acc) ==
    IF i > Len(files) THEN acc
    ELSE LET filePath == files[i].path
             length == files[i].length
             already == AlreadyIncluded(pass, acc.codeFiles, filePath)
             take == /\ ~already
                     /\ WantedInPass(pass, filePath)
                     /\ acc.total + length < MAX_CONTENT_LENGTH
         IN  PassOverFiles(files, i + 1, pass,
                 IF take
                 THEN [codeFiles |-> PutFile(acc.codeFiles, filePath, length),
                       total |-> acc.total + length,
                       log |-> Append(acc.log,
                                      [pass |-> pass, index |-> i,
                                       total |-> acc.total + length])]
                 ELSE acc)

\* 765-846: the three passes in turn
SelectCodeFiles(files) ==
    PassOverFiles(files, 1, 3,
        PassOverFiles(files, 1, 2,
            PassOverFiles(files, 1, 1,
                [codeFiles |-> NoFiles, total |-> 0, log |-> <<>>])))

RECURSIVE ContentLength(_)
\* the characters of content the kept files hold
ContentLength(files) ==
    IF DOMAIN files = {} THEN 0
    ELSE LET p == CHOOSE q \in DOMAIN files : TRUE
         IN  files[p] + ContentLength([q \in DOMAIN files \ {p} |-> files[q]])

RECURSIVE OriginalLength(_)
\* the characters of content of the artifact's file elements
OriginalLength(files) ==
    IF files = <<>> THEN 0 ELSE Head(files).length + OriginalLength(Tail(files))

\* 857: Math.round(length / 4)
EstimatedTokens(length) == (2 * length + CharsPerToken) \div (2 * CharsPerToken)

IndexTs == <<"s", "r", "c", "/", "i", "n", "d", "e", "x", ".", "t", "s">>

UtilTs == <<"s", "r", "c", "/", "u", "t", "i", "l", ".", "t", "s">>

ReadmeMd == <<"R", "E", "A", "D", "M", "E", ".", "m", "d">>

LogoPng == <<"l", "o", "g", "o", ".", "p", "n", "g">>

FilePaths == {IndexTs, UtilTs, ReadmeMd, LogoPng}

\* the lengths of a file's content: empty, a sixth of the budget, half of
\* it, two thirds of it
ContentLengths ==
    {0, MAX_CONTENT_LENGTH \div 6, MAX_CONTENT_LENGTH \div 2,
     2 * (MAX_CONTENT_LENGTH \div 3)}

\* the lengths of JSON.stringify(structure, null, 2): "{}" or a long listing
StructureLengths == {2, 500000}

\* the file elements of an artifact: a path of the repository occurs once
ArtifactFileLists ==
    UNION {{fs \in [1..n -> [path : FilePaths, length : ContentLengths]] :
               \A i, j \in 1..n : fs[i].path = fs[j].path => i = j} :
              n \in 0..MaxFiles}

ParseInit ==
    /\ rubricText = <<>> /\ questionsOut = <<>> /\ rpc = "idle"
    /\ AnswerIdle
    /\ FsIdle
    /\ MainIdle
    /\ InterviewIdle
    /\ EvaluateIdle
    /\ ListIdle
    /\ artifactFiles \in ArtifactFileLists
    /\ structureLength \in StructureLengths
    /\ codeFiles = NoFiles
    /\ totalContentLength = 0
    /\ summaryLength = 0
    /\ admissions = <<>>
    /\ ppc = "start"

nonParseVars ==
    <<rubricVars, answerVars, fsVars, mainVars, interviewVars, evaluateVars,
      listVars>>

\* 698-893: parseRepomixOutput on the artifact
ParseRepomixOutput ==
    /\ ppc = "start"
    /\ LET chosen == SelectCodeFiles(artifactFiles)
       IN  /\ codeFiles' = chosen.codeFiles
           /\ totalContentLength' = chosen.total
           /\ admissions' = chosen.log
    /\ ppc' = "parsed"
    /\ UNCHANGED <<artifactFiles, structureLength, summaryLength,
                   nonParseVars>>

\* 276-403: repoSummary takes the whole structure (291-293) and every kept
\* file between its two fences (354); the prompt holds repoSummary (410) and
\* goes to the model as it is (449). Headings and fences are not counted.
BuildSummary ==
    /\ ppc = "parsed"
    /\ summaryLength' = structureLength + ContentLength(codeFiles)
    /\ ppc' = "prompted"
    /\ UNCHANGED <<artifactFiles, structureLength, codeFiles,
                   totalContentLength, admissions, nonParseVars>>

ParseNext ==
    \/ ParseRepomixOutput
    \/ BuildSummary

SpecParse == ParseInit /\ [][ParseNext]_vars

-----------------------------------------------------------------------------
(* SpecRepoList: the choice of REPO_URLS at the module level (48-64), for   *)
(* bounded command lines and contents of the list file                      *)

ReposList == <<"r", "e", "p", "o", "s", ".", "l", "i", "s", "t">>

\* a list file that does not exist
GoneRepos == <<"g", "o", "n", "e", ".", "r", "e", "p", "o", "s">>

AnalysisFlag == <<"-", "-", "a", "n", "a", "l", "y", "s", "i", "s">>

Arguments == {UrlAX, UrlAY, ReposList, GoneRepos, AnalysisFlag}

\* lines of a list file: a URL, a URL with blanks around it, a comment that
\* holds a URL, a blank line
ListLines ==
    {UrlBX,
     <<" ", " ">> \o UrlAY \o <<" ">>,
     <<"#", " ">> \o UrlAX,
     <<>>}

ListFiles ==
    {NoTextFile}
        \cup {TextFile(JoinLines(ls)) :
                  ls \in UNION {[1..n -> ListLines] : n \in 0..MaxListLines}}

RepoListInit ==
    /\ rubricText = <<>> /\ questionsOut = <<>> /\ rpc = "idle"
    /\ AnswerIdle
    /\ FsIdle
    /\ MainIdle
    /\ InterviewIdle
    /\ EvaluateIdle
    /\ ParseIdle
    /\ argv \in UNION {[1..n -> Arguments] : n \in 0..MaxArgs}
    /\ listFile \in ListFiles
    /\ repoList = <<>>
    /\ lpc = "start"

\* fs.existsSync(REPO_LIST_FILE) (53): of the two names only repos.list may
\* exist
ListFileExists(name) == name = ReposList /\ listFile.exists

\* 48-64.  readOk: whether the read of the list file succeeds.
ChooseRepoUrls(readOk) ==
    /\ lpc = "start"
    /\ repoList' =
           OrDefaultRepo(
               IF REPO_LIST_FILE(argv) # <<>>
                      /\ ListFileExists(REPO_LIST_FILE(argv))
               THEN readReposFromFile(listFile, readOk)
               ELSE CommandLineUrls(argv))
    /\ lpc' = IF /\ REPO_LIST_FILE(argv) # <<>>
                 /\ ListFileExists(REPO_LIST_FILE(argv))
                 /\ ~readOk
              THEN "readFailed" ELSE "done"
    /\ UNCHANGED <<argv, listFile, rubricVars, answerVars, fsVars, mainVars,
                   interviewVars, evaluateVars, parseVars>>

RepoListNext == \E readOk \in BOOLEAN : ChooseRepoUrls(readOk)

SpecRepoList == RepoListInit /\ [][RepoListNext]_vars

-----------------------------------------------------------------------------
(* SpecRubric: the parser applied to every bounded rubric *)

RubricInit ==
    /\ rubricText \in RubricTexts
    /\ questionsOut = <<>>
    /\ rpc = "ready"
    /\ AnswerIdle
    /\ FsIdle
    /\ MainIdle
    /\ InterviewIdle
    /\ EvaluateIdle
    /\ ParseIdle
    /\ ListIdle

ExtractQuestions ==
    /\ rpc = "ready"
    /\ questionsOut' = extractQuestionsFromRubric(rubricText)
    /\ rpc' = "done"
    /\ UNCHANGED <<rubricText, answerVars, fsVars, mainVars, interviewVars,
                   evaluateVars, parseVars, listVars>>

RubricNext == ExtractQuestions

SpecRubric == RubricInit /\ [][RubricNext]_vars

-----------------------------------------------------------------------------
(* C1 *)

\* The lines of a rubric that begin with '-', '*' or 'digits.' and contain
\* '?', marker stripped, each once, in order of appearance.
RECURSIVE MatchingLines(_)
MatchingLines(lines) ==
    IF lines = <<>> THEN <<>>
    ELSE (IF HasListMarker(Trim(Head(lines))) /\ Includes(Head(lines), <<"?">>)
          THEN <<StripMarker(Trim(Head(lines)))>>
          ELSE <<>>) \o MatchingLines(Tail(lines))

\* C1: for every rubric text the parser returns each bullet/numbered line
\* containing '?' exactly once, in order, inside or outside a 'Questions:'
\* region; 'Questions:\n- What is X?\n- How does Y work?' yields exactly
\* ["What is X?", "How does Y work?"].
C1_EachMatchingLineOnce ==
    rpc = "done" => questionsOut = MatchingLines(SplitLines(rubricText))

-----------------------------------------------------------------------------
(* SpecAnswer: answerRubricQuestionsWithGemini on its own, for one        *)
(* repository whose output directory exists, over bounded rubrics and     *)
(* every bounded response or error of the model.                          *)

AnswerRubrics ==
    {JoinLines(<<LBulletNoQ>>),
     JoinLines(<<LWhatIsX>>),
     JoinLines(<<LWhatIsX, LHowY>>),
     JoinLines(<<QuestionsHeader, LWhatIsX, LHowY>>)}

AnswerInit ==
    /\ rubricText = <<>> /\ questionsOut = <<>> /\ rpc = "idle"
    /\ InterviewIdle
    /\ EvaluateIdle
    /\ ParseIdle
    /\ ListIdle
    /\ repoAnalysis = [repo |-> UrlAX, name |-> <<"x">>,
                       outputFile |-> Path(<<"x">>, "repomix-output.xml")]
    /\ RUBRIC \in AnswerRubrics
    /\ rubricQuestions = <<>>
    /\ generateCalls = <<>>
    /\ responseText = NoResponse
    /\ apiError = NoError
    /\ answerResults = <<>>
    /\ apc = "start"
    /\ dirs = [n \in RepoNames |-> IF n = <<"x">> THEN EmptyDir ELSE NoDir]
    /\ textFiles = [f \in {"rubric.txt", "custom.md"} |-> NoTextFile]
    /\ outputJson = [exists |-> FALSE, content |-> <<>>]
    /\ MainIdle

AnswerNext ==
    \/ CallModel /\ UNCHANGED <<idleVars, mainVars>>
    \/ \E text \in Responses, writeOk \in BOOLEAN :
           ModelReturns(text, writeOk) /\ UNCHANGED <<idleVars, mainVars>>
    \/ \E err \in ApiErrors :
           ModelThrows(err) /\ UNCHANGED <<idleVars, mainVars>>

SpecAnswer == AnswerInit /\ [][AnswerNext]_vars

-----------------------------------------------------------------------------
(* C2 *)

\* C2: for every question count N >= 1 and every response text, the function
\* returns exactly N entries, the i-th carrying the i-th rubric question and
\* an answer text: the model's, or a placeholder.
C2_OneEntryPerQuestion ==
    apc = "done" =>
        LET qs == QuestionsOrDefault(RUBRIC)
        IN  /\ Len(qs) >= 1
            /\ Len(answerResults) = Len(qs)
            /\ \A i \in 1..Len(qs) :
                   /\ answerResults[i].question = qs[i]
                   /\ answerResults[i].expectedAnswer.kind
                          \in {"model", "unable", "noanswer", "mock"}
                   /\ Truthy(answerResults[i].expectedAnswer)

\* an unstructured response answered one question and not another
C2_Witness ==
    /\ apc = "done"
    /\ Len(answerResults) >= 2
    /\ \E i, j \in 1..Len(answerResults) :
           /\ answerResults[i].expectedAnswer.kind = "model"
           /\ answerResults[j].expectedAnswer.kind = "unable"

-----------------------------------------------------------------------------
(* C4 *)

-----------------------------------------------------------------------------
(* C3 *)

\* C3: in every run that enters the repository loop, each repository URL of
\* the input gets exactly one invocation of answerRubricQuestionsWithGemini
\* and exactly one generate call, which carries all rubric questions, whether
\* its packaging/parsing stage succeeded or threw.
C3_OneAnswerCallPerRepository ==
    (mpc \in {"written", "exited"} /\ fatalAt \notin {"key", "rubric"}) =>
        /\ answerCalls = [k \in 1..Len(REPO_URLS) |-> k]
        /\ Len(generateCalls) = Len(REPO_URLS)
        /\ \A k \in 1..Len(generateCalls) :
               /\ generateCalls[k].repo = REPO_URLS[k]
               /\ generateCalls[k].questions = QuestionsOrDefault(RUBRIC)

-----------------------------------------------------------------------------
(* C5 *)

\* C5: a rubric.txt that exists when the run starts keeps its content, with
\* or without a rubric-file argument and whether or not the argument names an
\* existing file; rubric.txt changes only when it was absent and no existing
\* rubric file was given, and it then holds the default rubric.
C5_RubricTxtNeverOverwritten ==
    /\ textFiles0["rubric.txt"].exists =>
           textFiles["rubric.txt"] = textFiles0["rubric.txt"]
    /\ textFiles["rubric.txt"] # textFiles0["rubric.txt"] =>
           /\ ~textFiles0["rubric.txt"].exists
           /\ ~(RUBRIC_FILE # "" /\ textFiles0[RUBRIC_FILE].exists)
           /\ textFiles["rubric.txt"] = TextFile(DefaultRubric)

\* a finished run that started with rubric.txt and was given a rubric file
\* that does not exist
C5_Witness ==
    /\ mpc = "written"
    /\ textFiles0["rubric.txt"].exists
    /\ RUBRIC_FILE = "custom.md"
    /\ ~textFiles0["custom.md"].exists
    /\ RUBRIC = textFiles0["rubric.txt"].text

-----------------------------------------------------------------------------
(* C6 *)

\* C6: with the API credential present, whatever fails in the stages of a
\* repository, a run that got past the rubric and did not fail writing the
\* output ends with interview_questions.json written and holding at least
\* one question attributed to each input URL.
C6_EveryRepositoryReachesOutput ==
    (GEMINI_API_KEY /\ mpc \in {"written", "exited"}
         /\ fatalAt \notin {"rubric", "output"}) =>
        /\ outputJson.exists
        /\ \A k \in 1..Len(REPO_URLS) :
               \E i \in 1..Len(outputJson.content) :
                   outputJson.content[i].repository = REPO_URLS[k]

-----------------------------------------------------------------------------
(* C7 *)

\* C7: the artifact handed to parseRepomixOutput exists and is at least 100
\* bytes long; when the packaging subprocess failed, what is handed over is
\* the synthetic mock artifact, written over the placeholder
\* '<repository></repository>' that was written first.
C7_ParsedArtifactIsPlausible ==
    /\ mpc = "readParse" =>
           /\ dirs[Basename(repoUrl)].artifact # NoFile
           /\ dirs[Basename(repoUrl)].artifact.size >= MinArtifactSize
    /\ parsedInput # NoFile => parsedInput.size >= MinArtifactSize
    /\ (execOutcome = "failed" /\ mpc = "ensure") =>
           dirs[Basename(repoUrl)].artifact = PlaceholderXml
    /\ (execOutcome = "failed" /\ parsedInput # NoFile) =>
           /\ parsedInput =
                  generateMockRepositoryXml(repoUrl, Basename(repoUrl))
           /\ artifactLog = <<PlaceholderXml, parsedInput>>

\* the subprocess failed and the mock artifact was parsed
C7_Witness ==
    /\ execOutcome = "failed"
    /\ mpc = "answering"
    /\ parsedInput.kind = "mock"
    /\ artifactLog = <<PlaceholderXml, parsedInput>>

-----------------------------------------------------------------------------
(* C8 *)

\* the ids of the questions shown before question k
IdsBefore(k) == {interviewQuestions[j].id : j \in 1..(k - 1)}

\* C8: when the answer typed at question k is "exit" in any letter case, no
\* evaluation call is made for question k, no question after k is shown, and
\* the results the summary is built from belong to questions shown before k.
C8_ExitEndsTheLoop ==
    /\ \A c \in 1..Len(evalCalls) : toLowerCase(evalCalls[c].answer) # ExitWord
    /\ (ipc = "answered" /\ toLowerCase(response) = ExitWord) =>
           ENABLED Exit /\ ~ENABLED Skip /\ ~ENABLED Evaluate
    /\ exitedAt # 0 =>
           /\ ipc \in {"summary", "offerReport", "done"}
           /\ presented = [k \in 1..exitedAt |-> k]
           /\ \A c \in 1..Len(evalCalls) : evalCalls[c].index < exitedAt
           /\ DOMAIN results \subseteq IdsBefore(exitedAt)

\* exit on the second question after the first was evaluated, summary shown
C8_Witness ==
    /\ exitedAt = 2
    /\ Len(interviewQuestions) > 2
    /\ DOMAIN results = {interviewQuestions[1].id}
    /\ ipc = "done"
    /\ averageScore >= 0

-----------------------------------------------------------------------------
(* C9 *)

\* C9: when the answer typed at question k is "skip" in any letter case, no
\* evaluation call is made and no result is stored for question k, the
\* results map is left as it was, and the loop goes on to question k+1, or
\* ends when k was the last question.
C9_SkipLeavesResults ==
    /\ [](/\ \A c \in 1..Len(evalCalls) :
                 /\ toLowerCase(evalCalls[c].answer) # SkipWord
                 /\ evalCalls[c].index \notin skipped
          /\ Len(scoreLog) <= Len(evalCalls))
    /\ [][(ipc = "answered" /\ toLowerCase(response) = SkipWord) =>
              /\ results' = results
              /\ evalCalls' = evalCalls
              /\ scoreLog' = scoreLog
              /\ IF questionIndex < Len(interviewQuestions)
                 THEN /\ questionIndex' = questionIndex + 1
                      /\ presented' = Append(presented, questionIndex + 1)
                      /\ ipc' = "prompt"
                 ELSE ipc' = "summary"]_vars

\* the second question was skipped between two evaluated ones
C9_Witness ==
    /\ skipped = {2}
    /\ Len(evalCalls) = 2
    /\ evalCalls[1].index = 1
    /\ evalCalls[2].index = 3
    /\ Len(scoreLog) = 2
    /\ ipc = "done"

-----------------------------------------------------------------------------
(* C10 *)

RECURSIVE SumSeq(_)
SumSeq(scores) ==
    IF scores = <<>> THEN 0 ELSE Head(scores) + SumSeq(Tail(scores))

\* C10: the overall score of the summary, and of the report, is the mean,
\* rounded to one decimal, of the scores of all the questions evaluated in
\* the session, for any number of repositories.
C10_OverallScoreIsMeanOfEvaluated ==
    (ipc \in {"offerReport", "done"} /\ scoreLog # <<>>) =>
        /\ averageScore = RoundedTenths(SumSeq(scoreLog), Len(scoreLog))
        /\ report.exists =>
               report.overallScore =
                   RoundedTenths(SumSeq(scoreLog), Len(scoreLog))

-----------------------------------------------------------------------------
(* C11 *)

\* C11: when the evaluation call fails or its response is not parseable
\* JSON, evaluateAnswerWithGemini returns, and what it returns is an
\* evaluation with an integer score in 1..10, for every answer and every
\* expected answer, one with no word longer than 5 characters and an empty
\* answer included.
C11_FallbackScoreInRange ==
    thrown # <<>> =>
        /\ epc = "done"
        /\ evalResult.kind = "object"
        /\ evalResult.score \in 1..10

\* the fallback scored an empty answer against an expected answer that has
\* no keyword
C11_Witness ==
    /\ epc = "done"
    /\ thrown = <<"SyntaxError">>
    /\ evalAnswer = <<>>
    /\ evalQuestion.expectedAnswer.isString
    /\ evalQuestion.expectedAnswer.text # <<>>
    /\ ExpectedKeywords(evalQuestion.expectedAnswer.text) = <<>>
    /\ evalResult.score = 3

-----------------------------------------------------------------------------
(* C12 *)

\* C12: every evaluation stored in the interview's results map has an
\* integer score between 1 and 10 and list-valued missingPoints and
\* strengths, whether the model's response or a fallback produced it.
C12_StoredEvaluationsAreValid ==
    \A id \in DOMAIN results :
        /\ results[id].kind = "object"
        /\ results[id].score \in 1..10
        /\ results[id].missingPoints.isList
        /\ results[id].strengths.isList

-----------------------------------------------------------------------------
(* C13 *)

\* C13: without the API credential the process exits with code 1 before the
\* repository list is read, a directory is created or cleared, a subprocess
\* or the model is called, or a file is written; and the exit code is 1 only
\* then or when an error reached main's outer handler.
C13_ExitOneOnlyOnMissingKeyOrFatal ==
    /\ ~GEMINI_API_KEY =>
           /\ mpc \in {"start", "exited"}
           /\ mpc = "exited" => exitCode = 1 /\ fatalAt = "key"
           /\ REPO_URLS = <<>>
           /\ dirs = InitialDirs
           /\ textFiles = textFiles0
           /\ ~outputJson.exists /\ outputWrites = 0
           /\ generateCalls = <<>> /\ answerCalls = <<>>
           /\ execOutcome = "none" /\ artifactLog = <<>>
    /\ exitCode = 1 <=> fatalAt # "none"
    /\ fatalAt = "key" <=> (~GEMINI_API_KEY /\ mpc = "exited")
    /\ fatalAt \in {"none", "key", "rubric", "repo", "output"}

\* the run of a command line with two URLs ended at the credential check
C13_Witness ==
    /\ ~GEMINI_API_KEY
    /\ mpc = "exited"
    /\ exitCode = 1
    /\ Len(argUrls) = 2

-----------------------------------------------------------------------------
(* C14 *)

\* the number of repositories whose questions were collected
Collected ==
    IF mpc \in {"writeOutput", "written", "printed", "interview"}
           \/ (mpc = "exited" /\ fatalAt = "output")
    THEN Len(REPO_URLS)
    ELSE IF repoIndex = 0 THEN 0 ELSE repoIndex - 1

\* the number of questions collected per repository
QuestionCount ==
    IF Collected = 0 THEN 0 ELSE Len(allQuestions) \div Collected

-----------------------------------------------------------------------------
(* C15 *)

\* C15: for any two distinct repository URLs of the input, no step of the
\* processing of one deletes, recreates or overwrites the config, the
\* artifact or the debug file in the output directory of the other.
C15_RepositoriesOwnTheirDirectories ==
    [][\A k \in 1..Len(REPO_URLS) :
           (repoIndex \in 1..Len(REPO_URLS) /\ REPO_URLS[k] # repoUrl) =>
               dirs'[Basename(REPO_URLS[k])] = dirs[Basename(REPO_URLS[k])]]_vars

-----------------------------------------------------------------------------
(* C16 *)

\* C16: when the model call of a repository throws, whatever the error, the
\* answer function returns, with one entry per rubric question in rubric
\* order, ids q1..qN, each expectedAnswer a mock answer for its question.
C16_MockAnswersOnModelError ==
    apiError # NoError =>
        /\ apc = "done"
        /\ Len(answerResults) = Len(rubricQuestions)
        /\ Len(rubricQuestions) = Len(QuestionsOrDefault(RUBRIC))
        /\ \A k \in 1..Len(answerResults) :
               /\ answerResults[k].id = QuestionId(k)
               /\ answerResults[k].question = rubricQuestions[k]
               /\ answerResults[k].expectedAnswer = MockAnswer(rubricQuestions[k])

\* the call threw for a rubric of several questions
C16_Witness ==
    /\ apc = "done"
    /\ apiError \in ApiErrors
    /\ Len(rubricQuestions) >= 2
    /\ answerResults[2].expectedAnswer.kind = "mock"
    /\ generateCalls # <<>>

-----------------------------------------------------------------------------
(* C17 *)

\* C17: when the prompt assembled from an artifact exceeds the token ceiling,
\* the artifact text sent to the model is cut at a file boundary (every file
\* sent is a whole file of the artifact) and is strictly smaller than the
\* original.
C17_TruncatedWhenOverCeiling ==
    (ppc = "prompted" /\ EstimatedTokens(summaryLength) > ContextLimit) =>
        /\ \A p \in DOMAIN codeFiles :
               \E i \in 1..Len(artifactFiles) :
                   /\ artifactFiles[i].path = p
                   /\ artifactFiles[i].length = codeFiles[p]
        /\ ContentLength(codeFiles) < OriginalLength(artifactFiles)

-----------------------------------------------------------------------------
(* C18 *)

\* C18: in analysis mode the run is not interactive: no prompt is shown and
\* no answer is sent for evaluation.  In both modes interview_questions.json
\* is written once, after the last repository was processed and before the
\* answers are printed or the interview is entered.
C18_AnalysisModeAndSingleWrite ==
    /\ [](/\ outputWrites <= 1
          /\ mpc = "printed" => InterviewIdle /\ EvaluateIdle
          /\ mpc \in {"printed", "interview"} =>
                 /\ outputWrites = 1
                 /\ outputJson = [exists |-> TRUE, content |-> allQuestions]
                 /\ Collected = Len(REPO_URLS)
          /\ ipc # "idle" => mpc = "interview")
    /\ [][outputWrites' # outputWrites =>
              /\ mpc = "writeOutput" /\ mpc' = "written"
              /\ repoIndex = Len(REPO_URLS)
              /\ InterviewIdle]_vars

\* the answers of two repositories were printed in analysis mode
C18_Witness ==
    /\ mpc = "printed"
    /\ Len(REPO_URLS) = 2
    /\ outputWrites = 1
    /\ allQuestions # <<>>

-----------------------------------------------------------------------------
(* C19 *)

\* the questions of the built-in rubric, parsed once
DefaultRubricQuestions == QuestionsOrDefault(DefaultRubric)

\* the question list answerRubricQuestionsWithGemini makes of a rubric
QuestionsOfRubric(rubric) ==
    IF rubric = DefaultRubric THEN DefaultRubricQuestions
    ELSE QuestionsOrDefault(rubric)

\* the rubric was loaded: main is past 900-912
RubricLoaded ==
    /\ mpc \notin {"start", "loadRubric"}
    /\ fatalAt \notin {"key", "rubric"}

\* C19: the rubric of a run is the file named on the command line if it
\* exists, otherwise the existing rubric.txt, otherwise the built-in default,
\* which is then written to rubric.txt; it is chosen once and the questions
\* sent for every repository are those of that one rubric.
C19_RubricPrecedence ==
    /\ [](RubricLoaded =>
            /\ IF RUBRIC_FILE # "" /\ textFiles0[RUBRIC_FILE].exists
               THEN RUBRIC = textFiles0[RUBRIC_FILE].text
               ELSE IF textFiles0["rubric.txt"].exists
               THEN RUBRIC = textFiles0["rubric.txt"].text
               ELSE /\ RUBRIC = DefaultRubric
                    /\ textFiles["rubric.txt"] = TextFile(DefaultRubric)
            /\ \A k \in 1..Len(generateCalls) :
                   generateCalls[k].questions = QuestionsOfRubric(RUBRIC))
    /\ [][RubricLoaded => RUBRIC' = RUBRIC]_vars

\* the named file and rubric.txt both exist, and two repositories were asked
\* the questions of the named file
C19_Witness ==
    /\ RUBRIC_FILE # ""
    /\ textFiles0[RUBRIC_FILE].exists
    /\ textFiles0["rubric.txt"].exists
    /\ textFiles0["rubric.txt"].text # textFiles0[RUBRIC_FILE].text
    /\ RUBRIC = textFiles0[RUBRIC_FILE].text
    /\ Len(generateCalls) = 2
    /\ generateCalls[1].repo # generateCalls[2].repo

-----------------------------------------------------------------------------
(* C20 *)

\* C20: when the rubric parser returns an empty list, the three fixed default
\* questions take its place, so the list used for the prompt and for the
\* returned entries is never empty.
C20_DefaultQuestionsWhenNoneParsed ==
    apc # "start" =>
        /\ rubricQuestions # <<>>
        /\ IF extractQuestionsFromRubric(RUBRIC) = <<>>
           THEN rubricQuestions =
                    <<DefaultQuestion1, DefaultQuestion2, DefaultQuestion3>>
           ELSE rubricQuestions = extractQuestionsFromRubric(RUBRIC)
        /\ generateCalls # <<>>
        /\ generateCalls[1].questions = rubricQuestions
        /\ apc = "done" =>
               /\ Len(answerResults) = Len(rubricQuestions)
               /\ \A k \in 1..Len(answerResults) :
                      answerResults[k].question = rubricQuestions[k]

\* a rubric without a question was answered with the three defaults
C20_Witness ==
    /\ apc = "done"
    /\ extractQuestionsFromRubric(RUBRIC) = <<>>
    /\ Len(answerResults) = 3
    /\ answerResults[3].question = DefaultQuestion3
    /\ generateCalls[1].questions[1] = DefaultQuestion1

-----------------------------------------------------------------------------
(* C21 *)

\* the answer the entry of question k carries when `answers` is obj (497-498)
AnswerOrNone(obj, k) ==
    IF k \in DOMAIN obj /\ Truthy(obj[k]) THEN obj[k] ELSE NoAnswerProvided(k)

\* C21: the response is parsed directly; failing that, the fenced or first
\* brace span is parsed; and whenever that fails, because no span is found or
\* because the span is not valid JSON, each question's answer is the text
\* after its number, or the "unable to extract" placeholder.
C21_ThreeStepParseChain ==
    (/\ apc = "done"
     /\ apiError = NoError
     /\ responseText # NoResponse
     /\ answerResults # <<>>
     /\ answerResults[1].expectedAnswer.kind # "mock") =>
        LET direct == JSONparse(responseText)
            m == JsonMatch(responseText)
            extracted == JSONparse(SubSeq(responseText, m[1], m[2]))
            byNumber == [k \in 1..Len(rubricQuestions) |->
                            ExtractByNumber(responseText, k)]
            obj == IF direct.ok
                   THEN [k \in DOMAIN direct.obj |-> ValueText(direct.obj[k])]
                   ELSE IF m # NoMatch /\ extracted.ok
                   THEN [k \in DOMAIN extracted.obj |->
                             ValueText(extracted.obj[k])]
                   ELSE byNumber
        IN  \A k \in 1..Len(answerResults) :
                answerResults[k].expectedAnswer = AnswerOrNone(obj, k)

-----------------------------------------------------------------------------
(* C22 *)

\* C22: whether the write of the raw response to the debug file succeeds or
\* fails, the entries returned for a response of the model carry the answers
\* parsed from that response, never mock answers.
C22_DebugWriteIsSideEffectOnly ==
    (/\ apc = "done"
     /\ responseText # NoResponse
     /\ ~ParseAnswers(responseText, Len(rubricQuestions)).isNull) =>
        /\ Len(answerResults) = Len(rubricQuestions)
        /\ \A k \in 1..Len(answerResults) :
               /\ answerResults[k].expectedAnswer.kind # "mock"
               /\ answerResults[k].expectedAnswer =
                      AnswerOrNone(ParseAnswers(responseText,
                                                Len(rubricQuestions)).obj, k)

-----------------------------------------------------------------------------
(* C23 *)

\* the stated order of the interview's steps, as pairs of positions
InterviewOrder ==
    {<<"select", "prompt">>, <<"select", "summary">>,
     <<"prompt", "answered">>,
     <<"answered", "evaluating">>, <<"answered", "prompt">>,
     <<"answered", "summary">>,
     <<"evaluating", "showExpected">>,
     <<"showExpected", "prompt">>, <<"showExpected", "summary">>,
     <<"summary", "offerReport">>, <<"summary", "done">>,
     <<"offerReport", "done">>}

\* C23: whatever the user types, the interview follows the stated order and
\* ends: the questions are shown in list order, each at most once; after an
\* answer exactly one of Evaluate, Skip and Exit happens; the summary and the
\* report offer come only after the loop; and the run reaches Done, stopping
\* nowhere else, after at most one pass over the questions.
C23_InterviewOrderAndTermination ==
    /\ [](/\ Len(presented) <= Len(interviewQuestions)
          /\ \A k \in 1..Len(presented) : presented[k] = k
          /\ ipc = "answered" =>
                 /\ (ENABLED Exit) \/ (ENABLED Skip) \/ (ENABLED Evaluate)
                 /\ ~((ENABLED Exit) /\ (ENABLED Skip))
                 /\ ~((ENABLED Exit) /\ (ENABLED Evaluate))
                 /\ ~((ENABLED Skip) /\ (ENABLED Evaluate))
          /\ ipc \in {"offerReport", "done"} => response = <<>>
          /\ ipc # "done" => ENABLED InterviewNext)
    /\ [][/\ ipc' # ipc => <<ipc, ipc'>> \in InterviewOrder
          /\ ipc' = "prompt" => questionIndex' = questionIndex + 1
          /\ ipc = "done" => ipc' = "done"]_vars

-----------------------------------------------------------------------------
(* C24 *)

\* the k-th least element of a set of indices
KthOf(S, k) == CHOOSE i \in S : Cardinality({j \in S : j <= i}) = k

\* C24: the repository prompt is shown only when the questions span more
\* than one repository; at least one repository is selected; the questions
\* left are those of the selected repositories in their former order, and
\* every question presented belongs to a selected repository.
C24_RepositorySelection ==
    /\ [](selectedRepos.asked =>
            /\ selectedRepos.repos # {}
            /\ \A k \in 1..Len(presented) :
                   interviewQuestions[presented[k]].repository
                       \in selectedRepos.repos)
    /\ [][ipc = "select" =>
            LET before == interviewQuestions
                after == interviewQuestions'
                keep == {i \in 1..Len(before) :
                             before[i].repository \in selectedRepos'.repos}
            IN  /\ selectedRepos'.asked = (Cardinality(ReposOf(before)) > 1)
                /\ selectedRepos'.repos \subseteq ReposOf(before)
                /\ IF selectedRepos'.asked
                   THEN /\ Len(after) = Cardinality(keep)
                        /\ \A k \in 1..Len(after) :
                               after[k] = before[KthOf(keep, k)]
                   ELSE after = before]_vars
    /\ [][ipc # "select" => /\ selectedRepos' = selectedRepos
                            /\ interviewQuestions' = interviewQuestions]_vars

\* of two repositories the second alone was selected and its two questions
\* were presented
C24_Witness ==
    /\ selectedRepos = [asked |-> TRUE, repos |-> {UrlAY}]
    /\ Len(interviewQuestions) = 2
    /\ presented = <<1, 2>>
    /\ ipc = "done"

-----------------------------------------------------------------------------
(* C25 *)

\* the evaluations that have returned, as indices of evalCalls
Returned == 1..Len(scoreLog)

\* the last returned evaluation of a question with the id
LastReturned(qId) ==
    CHOOSE k \in Returned :
        /\ evalCalls[k].id = qId
        /\ \A j \in Returned : evalCalls[j].id = qId => j <= k

\* C25: with several repositories the ids of the aggregated list collide
\* (each repository's questions are q1, q2, ...); the results keep one
\* evaluation per id, the last one; and the report looks an id up as the
\* first question of the list with that id.  There is a run in which that is
\* a question of another repository than the one answered, and in which an
\* earlier evaluation was overwritten.
C25_IdsCollideAcrossRepositories ==
    /\ \A r \in ReposOf(interviewQuestions) :
           \E k \in 1..Len(interviewQuestions) :
               /\ interviewQuestions[k].repository = r
               /\ interviewQuestions[k].id = QuestionId(1)
    /\ DOMAIN results = {evalCalls[k].id : k \in Returned}
    /\ \A qId \in DOMAIN results :
           results[qId].score = scoreLog[LastReturned(qId)]
    /\ report.exists =>
           /\ DOMAIN report.questionDetails = DOMAIN results
           /\ \A qId \in DOMAIN results :
                  \E k \in 1..Len(interviewQuestions) :
                      /\ interviewQuestions[k].id = qId
                      /\ \A j \in 1..(k - 1) : interviewQuestions[j].id # qId
                      /\ report.questionDetails[qId].repository =
                             interviewQuestions[k].repositoryName
                      /\ report.questionDetails[qId].score =
                             scoreLog[LastReturned(qId)]

\* q1 was answered for both repositories with different scores: the report
\* shows the second score under the first repository's question
C25_Witness ==
    /\ report.exists
    /\ Len(evalCalls) = 2
    /\ evalCalls[1].id = evalCalls[2].id
    /\ interviewQuestions[evalCalls[1].index].repository
           # interviewQuestions[evalCalls[2].index].repository
    /\ scoreLog[1] # scoreLog[2]
    /\ report.questionDetails[evalCalls[2].id].repository
           # interviewQuestions[evalCalls[2].index].repositoryName
    /\ report.questionDetails[evalCalls[2].id].score = scoreLog[2]
    /\ Cardinality(DOMAIN results) = 1

-----------------------------------------------------------------------------
(* C26 *)

\* C26: the list produced for one repository has the ids q1, q2, ..., qN,
\* pairwise distinct, its k-th entry carrying the k-th rubric question,
\* whether the answers came from the model or are mock answers; and every
\* question of the aggregated list carries the URL and the name of the
\* repository it was generated for.
C26_IdsPerRepositoryAndOwner ==
    /\ apc = "done" =>
           /\ Len(answerResults) = Len(rubricQuestions)
           /\ \A j \in 1..Len(answerResults) :
                  /\ answerResults[j].id = QuestionId(j)
                  /\ answerResults[j].question = rubricQuestions[j]
                  /\ answerResults[j].expectedAnswer.kind
                         \in {"model", "noanswer", "unable", "mock"}
           /\ \A i, j \in 1..Len(answerResults) :
                  i # j => answerResults[i].id # answerResults[j].id
    /\ LET n == QuestionCount
           asked == QuestionsOfRubric(RUBRIC)
       IN  \A k \in 1..Collected : \A j \in 1..n :
               LET q == allQuestions[(k - 1) * n + j]
               IN  /\ n = Len(asked)
                   /\ q.id = QuestionId(j)
                   /\ q.question = asked[j]
                   /\ q.repository = REPO_URLS[k]
                   /\ q.repositoryName = Basename(REPO_URLS[k])

\* two repositories were collected, one answered by the model and one with
\* mock answers
C26_Witness ==
    /\ mpc = "written"
    /\ Len(REPO_URLS) = 2
    /\ REPO_URLS[1] # REPO_URLS[2]
    /\ \E i, j \in 1..Len(allQuestions) :
           /\ allQuestions[i].expectedAnswer.kind = "model"
           /\ allQuestions[j].expectedAnswer.kind = "mock"
           /\ allQuestions[i].repository # allQuestions[j].repository
           /\ allQuestions[i].id = allQuestions[j].id

-----------------------------------------------------------------------------
(* C27 *)

\* C27: interview-report.json is written only after the user has confirmed
\* the report offer; a failure of that write is caught and reported, and the
\* interview still reaches its final step.
C27_ReportOnlyOnConfirmation ==
    /\ [](/\ report.exists => generateReport = "yes"
          /\ reportError => generateReport = "yes" /\ report = NoReport
          /\ generateReport = "yes" => (report.exists # reportError)
          /\ generateReport = "no" => report = NoReport /\ ~reportError
          /\ generateReport # "unasked" => ipc = "done")
    /\ [][/\ ipc = "offerReport" =>
                 ipc' = "done" /\ generateReport' # "unasked"
          /\ report' # report =>
                 ipc = "offerReport" /\ generateReport' = "yes"]_vars

\* the user confirmed, the write failed, and the interview ended all the same
C27_Witness ==
    /\ generateReport = "yes"
    /\ reportError
    /\ report = NoReport
    /\ ipc = "done"
    /\ averageScore >= 0

-----------------------------------------------------------------------------
(* C28 *)

\* C28: when no answer was evaluated in the session, no summary is computed,
\* the report offer is not made and interview-report.json is not written;
\* the run still reaches its final step.
C28_NoSummaryWithoutEvaluation ==
    /\ [](evalCalls = <<>> =>
            /\ results = <<>>
            /\ averageScore = -1
            /\ ipc # "offerReport"
            /\ generateReport = "unasked"
            /\ report = NoReport
            /\ ~reportError)
    /\ [][(ipc = "summary" /\ evalCalls = <<>>) => ipc' = "done"]_vars

\* every question of several was skipped and the interview ended
C28_Witness ==
    /\ ipc = "done"
    /\ evalCalls = <<>>
    /\ Len(interviewQuestions) >= 2
    /\ skipped = 1..Len(interviewQuestions)
    /\ exitedAt = 0

-----------------------------------------------------------------------------
(* C29 *)

\* the list is chosen
Chosen == lpc \in {"done", "readFailed"}

\* the trimmed lines of the list file
TrimmedLines ==
    LET lines == SplitLines(listFile.text)
    IN  [i \in 1..Len(lines) |-> Trim(lines[i])]

\* urls is the subsequence of seq at the indices keep, in the order of seq
IsSubsequenceAt(urls, seq, keep) ==
    /\ Len(urls) = Cardinality(keep)
    /\ \A k \in 1..Len(urls) : urls[k] = seq[KthOf(keep, k)]

\* urls is what the claim names for the source seq: its entries starting
\* with https:// in order, or the single default URL when there are none
IsChoiceFrom(urls, seq) ==
    LET keep == {i \in 1..Len(seq) : IsHttps(seq[i])}
    IN  IF keep = {} THEN urls = <<DefaultRepoUrl>>
        ELSE IsSubsequenceAt(urls, seq, keep)

\* the arguments ending in .list or .repos that name an existing file
ExistingListArguments ==
    {i \in 1..Len(argv) : IsListArgument(argv[i]) /\ ListFileExists(argv[i])}

\* the first argument ending in .list or .repos, 0 when there is none
FirstListArgument ==
    IF \E i \in 1..Len(argv) : IsListArgument(argv[i])
    THEN KthOf({i \in 1..Len(argv) : IsListArgument(argv[i])}, 1)
    ELSE 0

\* C29 as stated: the list is never empty; when some .list/.repos argument
\* names an existing file it is the https:// lines of that file, trimmed and
\* in file order, otherwise the https:// arguments in order; when that is
\* empty it is the single default URL.
C29_AnyListArgumentIsRead ==
    Chosen =>
        /\ repoList # <<>>
        /\ IF ExistingListArguments # {}
           THEN lpc = "done" => IsChoiceFrom(repoList, TrimmedLines)
           ELSE IsChoiceFrom(repoList, argv)

\* C29 amended: as above, but the file is read only when the FIRST argument
\* ending in .list or .repos names an existing file, and a file that cannot
\* be read counts as one without URLs.
C29_FirstListArgumentIsRead ==
    Chosen =>
        /\ repoList # <<>>
        /\ IF FirstListArgument # 0 /\ ListFileExists(argv[FirstListArgument])
           THEN IF lpc = "done" THEN IsChoiceFrom(repoList, TrimmedLines)
                ELSE repoList = <<DefaultRepoUrl>>
           ELSE /\ lpc = "done"
                /\ IsChoiceFrom(repoList, argv)

\* a URL on the command line and an existing list file of a comment line and
\* a URL line with blanks around it: the list is the file's URL alone
C29_Witness ==
    /\ lpc = "done"
    /\ argv = <<UrlAX, ReposList>>
    /\ listFile = TextFile(JoinLines(<<<<"#", " ">> \o UrlAX,
                                       <<" ", " ">> \o UrlAY \o <<" ">>>>))
    /\ repoList = <<UrlAY>>

-----------------------------------------------------------------------------
(* C30 *)

\* the running total before the k-th admission
TotalBefore(k) == IF k = 1 THEN 0 ELSE admissions[k - 1].total

\* admission k comes before the visit of file i in the given pass
ComesBefore(k, pass, i) ==
    \/ admissions[k].pass < pass
    \/ admissions[k].pass = pass /\ admissions[k].index < i

\* the running total when the given pass visits file i
TotalAtVisit(pass, i) ==
    LET earlier == {k \in 1..Len(admissions) : ComesBefore(k, pass, i)}
    IN  IF earlier = {} THEN 0
        ELSE admissions[KthOf(earlier, Cardinality(earlier))].total

=============================================================================
